---- MODULE Spec2Model ----
(***************************************************************************)
(* Transactional multi-table write protocol of the DHAPI backend.          *)
(*                                                                         *)
(* The data base is modelled by its committed tables.  A statement sent    *)
(* through pool.query runs in its own implicit transaction and is applied  *)
(* to the committed tables in the step that executes it.  A statement sent *)
(* through a checked-out client between BEGIN and COMMIT is kept in that   *)
(* client's pending set; COMMIT applies the pending set in one step and    *)
(* ROLLBACK drops it.  Every await of the source is one step of a worker.  *)
(* A statement that can be refused by the data base (constraint violation, *)
(* lost connection) either succeeds or fails, nondeterministically.        *)
(***************************************************************************)
EXTENDS Integers, Sequences, FiniteSets, TLC

VARIABLES
    orderfile,      \* committed rows of table orderfile: id -> [status, cancel]
    orderdetail,    \* committed rows of table orderdetail: [orderId, line, Itemcode],
                    \* line being the row's place among the rows of its call
    orderSeq,       \* next value of the orderfile id sequence
    lastStmt,       \* the last single-statement order operation that ran: its
                    \* arguments, the number of statements it executed, the
                    \* affectedRows of its result, whether it threw
    products,       \* committed rows of table products: id -> row
    moqs,           \* committed rows of table moqs: [id, product_id, moq, rate]
    productSeq,     \* next value of the products id sequence
    moqSeq,         \* next value of the moqs id sequence
    storage,        \* image references present in image storage
    imgSeq,         \* next fresh image reference (public_id / file name)
    productgroups,  \* ids of the committed rows of table productgroups
    groupSeq,       \* next value of the productgroups id sequence
    checkedOut,     \* number of pooled connections currently checked out
    pc,             \* per worker: the await it is suspended at
    loc             \* per worker: arguments and locals of the running call

orderVars == <<orderfile, orderdetail, orderSeq, lastStmt>>
productVars == <<products, moqs, productSeq, moqSeq, storage, imgSeq>>
groupVars == <<productgroups, groupSeq>>
vars == <<orderVars, productVars, groupVars, checkedOut, pc, loc>>

\* ------------------------------------------------------------------ bounds
MaxOrders == 2
MaxProducts == 1
MaxMoqId == 4
MaxImages == 2
MaxGroups == 1

\* ------------------------------------------------------- program constants
PoolMax == 10

Workers == {1, 2}
OrderIds == 1..MaxOrders

Statuses == {"pending", "processing", "shipped", "delivered", "cancelled"}

Idle == [op |-> "none"]

\* Orders handed to the create operations: Itemcode 0 stands for a missing
\* item, status "" and cancel 0 for fields that were not supplied.
OrderInputs ==
    { [Itemcode |-> 7, status |-> "", cancel |-> 0],
      [Itemcode |-> 0, status |-> "", cancel |-> 0],
      [Itemcode |-> 7, status |-> "shipped", cancel |-> 1] }

\* Detail lists handed to the create operations (each element an Itemcode).
DetailLists == { <<>>, <<1, 2, 3>> }

\* Calls that have been started and will still draw an id from the orderfile
\* sequence; used only to keep the sequence within MaxOrders.
Creating == { w \in Workers : pc[w] \in {"co_order", "cw_order"} }

DetailsOf(orderId) == { d \in orderdetail : d.orderId = orderId }

\* No order yet.
InitOrders ==
    /\ lastStmt = [op |-> "none", ids |-> {}, arg |-> <<>>,
                   stmts |-> 0, affectedRows |-> 0, thrown |-> FALSE]
    /\ orderfile = << >>
    /\ orderdetail = {}
    /\ orderSeq = 1

\* No product, no tier, no stored image.
InitProducts ==
    /\ products = << >>
    /\ moqs = {}
    /\ productSeq = 1
    /\ moqSeq = 1
    /\ storage = {}
    /\ imgSeq = 1

\* No product group.
InitGroups ==
    /\ productgroups = {}
    /\ groupSeq = 1

\* Every connection in the pool, no call running.
InitWorkers ==
    /\ checkedOut = 0
    /\ pc = [w \in Workers |-> "idle"]
    /\ loc = [w \in Workers |-> Idle]

Init == InitOrders /\ InitProducts /\ InitGroups /\ InitWorkers

\* -------------------------------------------------- OrderRepository.create
\* The row written by the INSERT: order.status || 'pending', order.cancel || 0.
OrderRow(order) ==
    [ status |-> IF order.status = "" THEN "pending" ELSE order.status,
      cancel |-> IF order.cancel = 0 THEN 0 ELSE order.cancel ]

\* A stand-alone create (POST /orders without details): one INSERT through
\* pool.query.
create(order) ==
    /\ orderSeq + Cardinality(Creating) <= MaxOrders
    /\ checkedOut < PoolMax
    /\ orderfile' = orderfile @@ (orderSeq :> OrderRow(order))
    /\ orderSeq' = orderSeq + 1
    /\ lastStmt' = [op |-> "create", ids |-> {orderSeq}, arg |-> <<>>,
                    stmts |-> 1, affectedRows |-> 1, thrown |-> FALSE]
    /\ UNCHANGED <<orderdetail, checkedOut, pc, loc, productVars, groupVars>>

\* ------------------------------------ OrderService.createOrderWithDetails
\* pool.connect() and BEGIN on the service's own client.
co_Begin(w, order, details) ==
    /\ pc[w] = "idle"
    /\ orderSeq + Cardinality(Creating) <= MaxOrders
    /\ checkedOut < PoolMax
    /\ checkedOut' = checkedOut + 1
    /\ pc' = [pc EXCEPT ![w] = "co_order"]
    /\ loc' = [loc EXCEPT ![w] =
                 [ op |-> "createOrderWithDetails", order |-> order,
                   details |-> details, orderId |-> 0, i |-> 1,
                   pendOrder |-> {}, pend |-> {}, ok |-> FALSE ]]
    /\ UNCHANGED <<orderfile, orderdetail, orderSeq, lastStmt, productVars, groupVars>>

\* this.orderRepo.create(order): the INSERT goes through pool.query, not
\* through the client that holds the open transaction, so it is committed
\* by the statement itself.
co_Order(w) ==
    /\ pc[w] = "co_order"
    /\ checkedOut < PoolMax
    /\ \/ /\ orderfile' = orderfile @@ (orderSeq :> OrderRow(loc[w].order))
          /\ orderSeq' = orderSeq + 1
          /\ loc' = [loc EXCEPT ![w].orderId = orderSeq]
          /\ pc' = [pc EXCEPT ![w] = "cf_connect"]
       \/ /\ pc' = [pc EXCEPT ![w] = "co_rollback"]
          /\ UNCHANGED <<orderfile, orderSeq, loc>>
    /\ UNCHANGED <<orderdetail, lastStmt, checkedOut, productVars, groupVars>>

\* OrderDetailRepository.createForOrder: pool.connect() and BEGIN on a
\* second client.
cf_Connect(w) ==
    /\ pc[w] = "cf_connect"
    /\ checkedOut < PoolMax
    /\ checkedOut' = checkedOut + 1
    /\ pc' = [pc EXCEPT ![w] =
                 IF Len(loc[w].details) = 0 THEN "cf_commit" ELSE "cf_insert"]
    /\ UNCHANGED <<orderfile, orderdetail, orderSeq, lastStmt, loc, productVars, groupVars>>

\* One INSERT INTO orderdetail on the second client.
cf_Insert(w) ==
    /\ pc[w] = "cf_insert"
    /\ \/ /\ loc' = [loc EXCEPT
                 ![w].pend = @ \cup { [ orderId |-> loc[w].orderId,
                                        line |-> loc[w].i,
                                        Itemcode |-> loc[w].details[loc[w].i] ] },
                 ![w].i = @ + 1]
          /\ pc' = [pc EXCEPT ![w] =
                      IF loc[w].i = Len(loc[w].details)
                      THEN "cf_commit" ELSE "cf_insert"]
       \/ /\ pc' = [pc EXCEPT ![w] = "cf_rollback"]
          /\ UNCHANGED loc
    /\ UNCHANGED <<orderfile, orderdetail, orderSeq, lastStmt, checkedOut, productVars, groupVars>>

\* COMMIT of the second client, then release in the finally block.
cf_Commit(w) ==
    /\ pc[w] = "cf_commit"
    /\ \/ /\ orderdetail' = orderdetail \cup loc[w].pend
          /\ loc' = [loc EXCEPT ![w].pend = {}]
          /\ checkedOut' = checkedOut - 1
          /\ pc' = [pc EXCEPT ![w] = "co_commit"]
       \/ /\ pc' = [pc EXCEPT ![w] = "cf_rollback"]
          /\ UNCHANGED <<orderdetail, loc, checkedOut>>
    /\ UNCHANGED <<orderfile, orderSeq, lastStmt, productVars, groupVars>>

\* ROLLBACK of the second client, release, and the error is rethrown into
\* the service's catch block.
cf_Rollback(w) ==
    /\ pc[w] = "cf_rollback"
    /\ loc' = [loc EXCEPT ![w].pend = {}]
    /\ checkedOut' = checkedOut - 1
    /\ pc' = [pc EXCEPT ![w] = "co_rollback"]
    /\ UNCHANGED <<orderfile, orderdetail, orderSeq, lastStmt, productVars, groupVars>>

\* COMMIT of the service's client (which issued no statement of its own),
\* release, return orderId.
co_Commit(w) ==
    /\ pc[w] = "co_commit"
    /\ loc[w].op = "createOrderWithDetails"
    /\ \/ /\ checkedOut' = checkedOut - 1
          /\ loc' = [loc EXCEPT ![w].ok = TRUE]
          /\ pc' = [pc EXCEPT ![w] = "done"]
       \/ /\ pc' = [pc EXCEPT ![w] = "co_rollback"]
          /\ UNCHANGED <<loc, checkedOut>>
    /\ UNCHANGED <<orderfile, orderdetail, orderSeq, lastStmt, productVars, groupVars>>

\* ROLLBACK of the service's client, release, rethrow.
co_Rollback(w) ==
    /\ pc[w] = "co_rollback"
    /\ loc[w].op = "createOrderWithDetails"
    /\ checkedOut' = checkedOut - 1
    /\ loc' = [loc EXCEPT ![w].ok = FALSE]
    /\ pc' = [pc EXCEPT ![w] = "done"]
    /\ UNCHANGED <<orderfile, orderdetail, orderSeq, lastStmt, productVars, groupVars>>

\* --------------------------------------- OrderRepository.createWithDetails
\* getConnection() and beginTransaction().
cw_Begin(w, order, details) ==
    /\ pc[w] = "idle"
    /\ orderSeq + Cardinality(Creating) <= MaxOrders
    /\ checkedOut < PoolMax
    /\ checkedOut' = checkedOut + 1
    /\ pc' = [pc EXCEPT ![w] = "cw_order"]
    /\ loc' = [loc EXCEPT ![w] =
                 [ op |-> "createWithDetails", order |-> order,
                   details |-> details, orderId |-> 0, i |-> 1,
                   pendOrder |-> {}, pend |-> {}, ok |-> FALSE ]]
    /\ UNCHANGED <<orderfile, orderdetail, orderSeq, lastStmt, productVars, groupVars>>

\* The required-field check, then the INSERT INTO orderfile on the
\* connection that holds the transaction: the row stays pending.
cw_Order(w) ==
    /\ pc[w] = "cw_order"
    /\ \/ /\ loc[w].order.Itemcode # 0
          /\ loc' = [loc EXCEPT ![w].orderId = orderSeq,
                                ![w].pendOrder = {OrderRow(loc[w].order)}]
          /\ orderSeq' = orderSeq + 1
          /\ pc' = [pc EXCEPT ![w] =
                      IF Len(loc[w].details) > 0 THEN "cm_connect"
                                                 ELSE "cw_commit"]
       \/ /\ pc' = [pc EXCEPT ![w] = "cw_rollback"]
          /\ UNCHANGED <<orderSeq, loc>>
    /\ UNCHANGED <<orderfile, orderdetail, lastStmt, checkedOut, productVars, groupVars>>

\* OrderDetailRepository.createMultiple: a second connection with its own
\* transaction.
cm_Connect(w) ==
    /\ pc[w] = "cm_connect"
    /\ checkedOut < PoolMax
    /\ checkedOut' = checkedOut + 1
    /\ pc' = [pc EXCEPT ![w] = "cm_insert"]
    /\ UNCHANGED <<orderfile, orderdetail, orderSeq, lastStmt, loc, productVars, groupVars>>

\* One INSERT INTO orderdetail on the second connection.
cm_Insert(w) ==
    /\ pc[w] = "cm_insert"
    /\ \/ /\ loc' = [loc EXCEPT
                 ![w].pend = @ \cup { [ orderId |-> loc[w].orderId,
                                        line |-> loc[w].i,
                                        Itemcode |-> loc[w].details[loc[w].i] ] },
                 ![w].i = @ + 1]
          /\ pc' = [pc EXCEPT ![w] =
                      IF loc[w].i = Len(loc[w].details)
                      THEN "cm_commit" ELSE "cm_insert"]
       \/ /\ pc' = [pc EXCEPT ![w] = "cm_rollback"]
          /\ UNCHANGED loc
    /\ UNCHANGED <<orderfile, orderdetail, orderSeq, lastStmt, checkedOut, productVars, groupVars>>

\* commit() of the second connection, then release.
cm_Commit(w) ==
    /\ pc[w] = "cm_commit"
    /\ \/ /\ orderdetail' = orderdetail \cup loc[w].pend
          /\ loc' = [loc EXCEPT ![w].pend = {}]
          /\ checkedOut' = checkedOut - 1
          /\ pc' = [pc EXCEPT ![w] = "cw_commit"]
       \/ /\ pc' = [pc EXCEPT ![w] = "cm_rollback"]
          /\ UNCHANGED <<orderdetail, loc, checkedOut>>
    /\ UNCHANGED <<orderfile, orderSeq, lastStmt, productVars, groupVars>>

\* rollback() of the second connection, release, rethrow.
cm_Rollback(w) ==
    /\ pc[w] = "cm_rollback"
    /\ loc' = [loc EXCEPT ![w].pend = {}]
    /\ checkedOut' = checkedOut - 1
    /\ pc' = [pc EXCEPT ![w] = "cw_rollback"]
    /\ UNCHANGED <<orderfile, orderdetail, orderSeq, lastStmt, productVars, groupVars>>

\* commit() of the first connection: the pending order row becomes visible.
cw_Commit(w) ==
    /\ pc[w] = "cw_commit"
    /\ \/ /\ orderfile' = orderfile @@
                 [id \in {loc[w].orderId} |-> CHOOSE r \in loc[w].pendOrder : TRUE]
          /\ checkedOut' = checkedOut - 1
          /\ loc' = [loc EXCEPT ![w].ok = TRUE, ![w].pendOrder = {}]
          /\ pc' = [pc EXCEPT ![w] = "done"]
       \/ /\ pc' = [pc EXCEPT ![w] = "cw_rollback"]
          /\ UNCHANGED <<orderfile, loc, checkedOut>>
    /\ UNCHANGED <<orderdetail, orderSeq, lastStmt, productVars, groupVars>>

\* rollback() of the first connection, release, rethrow.
cw_Rollback(w) ==
    /\ pc[w] = "cw_rollback"
    /\ checkedOut' = checkedOut - 1
    /\ loc' = [loc EXCEPT ![w].ok = FALSE, ![w].pendOrder = {}]
    /\ pc' = [pc EXCEPT ![w] = "done"]
    /\ UNCHANGED <<orderfile, orderdetail, orderSeq, lastStmt, productVars, groupVars>>

\* The caller has received the result or the error.
Return(w) ==
    /\ pc[w] = "done"
    /\ pc' = [pc EXCEPT ![w] = "idle"]
    /\ loc' = [loc EXCEPT ![w] = Idle]
    /\ UNCHANGED <<orderfile, orderdetail, orderSeq, lastStmt, checkedOut, productVars, groupVars>>

\* ------------------------------------------- single-statement order updates
\* UPDATE orderfile SET status = ? WHERE id = ?
updateStatus(id, status) ==
    /\ checkedOut < PoolMax
    /\ orderfile' = [o \in DOMAIN orderfile |->
                       IF o = id THEN [orderfile[o] EXCEPT !.status = status]
                                 ELSE orderfile[o]]
    /\ lastStmt' = [op |-> "updateStatus", ids |-> {id}, arg |-> <<status>>,
                    stmts |-> 1, affectedRows |-> Cardinality({id} \cap DOMAIN orderfile),
                    thrown |-> FALSE]
    /\ UNCHANGED <<orderdetail, orderSeq, checkedOut, pc, loc, productVars, groupVars>>

\* The default of the second parameter: cancel(id, cancel = 1).
CancelArg(a) == IF a = <<>> THEN 1 ELSE a[1]

\* A cancel that writes the flag alone and leaves the status to a second
\* statement.
cancel_FlagOnly(id, a) ==
    /\ checkedOut < PoolMax
    /\ orderfile' = [o \in DOMAIN orderfile |->
                       IF o = id
                       THEN [orderfile[o] EXCEPT !.cancel = CancelArg(a)]
                       ELSE orderfile[o]]
    /\ lastStmt' = [op |-> "cancel", ids |-> {id}, arg |-> a,
                    stmts |-> 1, affectedRows |-> Cardinality({id} \cap DOMAIN orderfile),
                    thrown |-> FALSE]
    /\ UNCHANGED <<orderdetail, orderSeq, checkedOut, pc, loc, productVars, groupVars>>

\* UPDATE orderfile SET cancel = ?, status = 'cancelled' WHERE id = ?
cancel(id, a) ==
    /\ checkedOut < PoolMax
    /\ orderfile' = [o \in DOMAIN orderfile |->
                       IF o = id
                       THEN [status |-> "cancelled", cancel |-> CancelArg(a)]
                       ELSE orderfile[o]]
    /\ lastStmt' = [op |-> "cancel", ids |-> {id}, arg |-> a,
                    stmts |-> 1, affectedRows |-> Cardinality({id} \cap DOMAIN orderfile),
                    thrown |-> FALSE]
    /\ UNCHANGED <<orderdetail, orderSeq, checkedOut, pc, loc, productVars, groupVars>>

\* UPDATE orderfile SET status = ? WHERE id IN (...); no statement for an
\* empty id list.
bulkUpdateStatus(orderIds, status) ==
    /\ orderIds # {} => checkedOut < PoolMax
    /\ orderfile' = [o \in DOMAIN orderfile |->
                       IF o \in orderIds
                       THEN [orderfile[o] EXCEPT !.status = status]
                       ELSE orderfile[o]]
    /\ lastStmt' = [op |-> "bulkUpdateStatus", ids |-> orderIds, arg |-> <<status>>,
                    stmts |-> IF orderIds = {} THEN 0 ELSE 1,
                    affectedRows |-> Cardinality(orderIds \cap DOMAIN orderfile),
                    thrown |-> FALSE]
    /\ UNCHANGED <<orderdetail, orderSeq, checkedOut, pc, loc, productVars, groupVars>>

\* UPDATE orderfile SET cancel = ?, status = 'cancelled' WHERE id IN (...);
\* no statement for an empty id list.
bulkCancel(orderIds, a) ==
    /\ orderIds # {} => checkedOut < PoolMax
    /\ orderfile' = [o \in DOMAIN orderfile |->
                       IF o \in orderIds
                       THEN [status |-> "cancelled", cancel |-> CancelArg(a)]
                       ELSE orderfile[o]]
    /\ lastStmt' = [op |-> "bulkCancel", ids |-> orderIds, arg |-> a,
                    stmts |-> IF orderIds = {} THEN 0 ELSE 1,
                    affectedRows |-> Cardinality(orderIds \cap DOMAIN orderfile),
                    thrown |-> FALSE]
    /\ UNCHANGED <<orderdetail, orderSeq, checkedOut, pc, loc, productVars, groupVars>>

\* handleOrderEndpoints, case 'bulkUpdateStatus': an empty orderIds array is
\* answered with Error('Order IDs array is required'); otherwise the
\* repository is called.
handleBulkUpdateStatus(orderIds, status) ==
    IF orderIds = {}
    THEN /\ lastStmt' = [op |-> "bulkUpdateStatus", ids |-> {}, arg |-> <<status>>,
                         stmts |-> 0, affectedRows |-> 0, thrown |-> TRUE]
         /\ UNCHANGED <<orderfile, orderdetail, orderSeq, checkedOut, pc, loc,
                        productVars, groupVars>>
    ELSE bulkUpdateStatus(orderIds, status)

\* handleOrderEndpoints, case 'bulkCancel': as above, with body.cancel
\* defaulting to 1.
handleBulkCancel(orderIds, a) ==
    IF orderIds = {}
    THEN /\ lastStmt' = [op |-> "bulkCancel", ids |-> {}, arg |-> <<CancelArg(a)>>,
                         stmts |-> 0, affectedRows |-> 0, thrown |-> TRUE]
         /\ UNCHANGED <<orderfile, orderdetail, orderSeq, checkedOut, pc, loc,
                        productVars, groupVars>>
    ELSE bulkCancel(orderIds, <<CancelArg(a)>>)

\* The second argument as the caller passes it: left out, 0 or 1.
CancelArgs == {<<>>, <<0>>, <<1>>}

NextStatus ==
    \/ \E o \in OrderInputs : create(o)
    \/ \E id \in OrderIds, st \in Statuses : updateStatus(id, st)
    \/ \E id \in OrderIds, a \in CancelArgs : cancel(id, a)
    \/ \E ids \in SUBSET OrderIds, st \in Statuses : bulkUpdateStatus(ids, st)
    \/ \E ids \in SUBSET OrderIds, a \in CancelArgs : bulkCancel(ids, a)
    \/ \E ids \in SUBSET OrderIds, st \in Statuses : handleBulkUpdateStatus(ids, st)
    \/ \E ids \in SUBSET OrderIds, a \in CancelArgs : handleBulkCancel(ids, a)

SpecStatus == Init /\ [][NextStatus]_vars

NextOrders ==
    \/ \E o \in OrderInputs : create(o)
    \/ \E w \in Workers :
          \/ \E o \in OrderInputs, ds \in DetailLists : co_Begin(w, o, ds)
          \/ co_Order(w)
          \/ cf_Connect(w)
          \/ cf_Insert(w)
          \/ cf_Commit(w)
          \/ cf_Rollback(w)
          \/ co_Commit(w)
          \/ co_Rollback(w)
          \/ \E o \in OrderInputs, ds \in DetailLists : cw_Begin(w, o, ds)
          \/ cw_Order(w)
          \/ cm_Connect(w)
          \/ cm_Insert(w)
          \/ cm_Commit(w)
          \/ cm_Rollback(w)
          \/ cw_Commit(w)
          \/ cw_Rollback(w)
          \/ Return(w)

SpecOrders == Init /\ [][NextOrders]_vars

\* ===================================================================
\* Products, MOQ tiers and stored images
\* ===================================================================

\* The image slots of a product row (image_url3 and image_url4 are handled
\* by the same code as image_url2).
Slots == {"image_url", "image_url2"}

\* The empty image reference: '' or NULL in the row.
NoImage == 0

\* The empty group reference: groupid NULL.
NoGroup == 0

\* Product fields handed to the create and update operations; name "" and
\* price 0 stand for a missing field.
ProductInputs ==
    { [name |-> "Widget", price |-> 9, groupid |-> NoGroup],
      [name |-> "", price |-> 9, groupid |-> NoGroup] }

\* Tier lists handed to the operations; <<50, 10>> is not in ascending order.
Tier(q, r) == [moq |-> q, rate |-> r]
MoqLists == { <<>>, <<Tier(50, 7), Tier(10, 8)>> }
ReplaceLists == MoqLists \cup { <<Tier(5, 9)>> }

MoqsOf(productId) == { r \in moqs : r.product_id = productId }

\* The (moq, rate) pairs of a tier list and of a set of rows.
TiersOfList(list) == { list[k] : k \in 1..Len(list) }
TiersOfRows(rows) == { Tier(r.moq, r.rate) : r \in rows }

\* The image references a product row holds.
RefsOf(row) == { row[s] : s \in Slots } \ {NoImage}

\* ------------------------------------ ProductService.createProductWithImages
\* pool.connect() and BEGIN; images = {} stands for no images argument.
cp_Begin(w, data, list, images) ==
    /\ pc[w] = "idle"
    /\ productSeq <= MaxProducts
    /\ moqSeq + Len(list) <= MaxMoqId + 1
    /\ imgSeq + Cardinality(images) <= MaxImages + 1
    /\ checkedOut < PoolMax
    /\ checkedOut' = checkedOut + 1
    /\ pc' = [pc EXCEPT ![w] = IF images = {} THEN "cp_product" ELSE "cp_upload"]
    /\ loc' = [loc EXCEPT ![w] =
                 [ op |-> "createProductWithImages", data |-> data,
                   list |-> list, uploading |-> images,
                   uploaded |-> [s \in Slots |-> NoImage],
                   productId |-> 0, i |-> 1, began |-> TRUE,
                   pendProduct |-> {}, pendIns |-> {}, ok |-> FALSE,
                   thrown |-> "none" ]]
    /\ UNCHANGED <<orderVars, productVars, groupVars>>

\* Uploads of which only the first to settle is awaited: the call goes on to
\* the INSERT while the others are still in flight.
cp_Upload_FirstSettled(w, s) ==
    /\ pc[w] = "cp_upload"
    /\ s \in loc[w].uploading
    /\ \/ /\ storage' = storage \cup {imgSeq}
          /\ imgSeq' = imgSeq + 1
          /\ loc' = [loc EXCEPT ![w].uploaded[s] = imgSeq,
                                ![w].uploading = @ \ {s}]
       \/ /\ loc' = [loc EXCEPT ![w].uploading = @ \ {s}]
          /\ UNCHANGED <<storage, imgSeq>>
    /\ pc' = [pc EXCEPT ![w] = "cp_product"]
    /\ UNCHANGED <<orderVars, groupVars, products, moqs, productSeq, moqSeq, checkedOut>>

\* uploadProductImages: the uploads run concurrently and each settles on its
\* own; a failed upload is caught and leaves '' for its slot.
cp_Upload(w, s) ==
    /\ pc[w] = "cp_upload"
    /\ s \in loc[w].uploading
    /\ \/ /\ storage' = storage \cup {imgSeq}
          /\ imgSeq' = imgSeq + 1
          /\ loc' = [loc EXCEPT ![w].uploaded[s] = imgSeq,
                                ![w].uploading = @ \ {s}]
       \/ /\ loc' = [loc EXCEPT ![w].uploading = @ \ {s}]
          /\ UNCHANGED <<storage, imgSeq>>
    /\ pc' = [pc EXCEPT ![w] =
                IF loc[w].uploading = {s} THEN "cp_product" ELSE "cp_upload"]
    /\ UNCHANGED <<orderVars, groupVars, products, moqs, productSeq, moqSeq, checkedOut>>

\* The row of the INSERT INTO products.
NewProductRow(data, uploaded) ==
    [ name |-> data.name, price |-> data.price,
      image_url |-> uploaded["image_url"],
      image_url2 |-> uploaded["image_url2"],
      groupid |-> data.groupid ]

\* INSERT INTO products ... RETURNING id on the client of the transaction.
cp_Product(w) ==
    /\ pc[w] = "cp_product"
    /\ \/ /\ loc' = [loc EXCEPT
                 ![w].productId = productSeq,
                 ![w].pendProduct = {NewProductRow(loc[w].data, loc[w].uploaded)}]
          /\ productSeq' = productSeq + 1
          /\ pc' = [pc EXCEPT ![w] =
                      IF Len(loc[w].list) > 0 THEN "cp_moq" ELSE "cp_commit"]
       \/ /\ pc' = [pc EXCEPT ![w] = "cp_rollback"]
          /\ UNCHANGED <<loc, productSeq>>
    /\ UNCHANGED <<orderVars, groupVars, products, moqs, moqSeq, storage, imgSeq, checkedOut>>

\* An INSERT INTO moqs that writes through at once, outside the transaction.
cp_Moq_Autocommit(w) ==
    /\ pc[w] = "cp_moq"
    /\ \/ /\ moqs' = moqs \cup { [ id |-> moqSeq,
                                    product_id |-> loc[w].productId,
                                    moq |-> loc[w].list[loc[w].i].moq,
                                    rate |-> loc[w].list[loc[w].i].rate ] }
          /\ loc' = [loc EXCEPT ![w].i = @ + 1]
          /\ moqSeq' = moqSeq + 1
          /\ pc' = [pc EXCEPT ![w] =
                      IF loc[w].i = Len(loc[w].list) THEN "cp_commit" ELSE "cp_moq"]
       \/ /\ pc' = [pc EXCEPT ![w] = "cp_rollback"]
          /\ UNCHANGED <<loc, moqs, moqSeq>>
    /\ UNCHANGED <<orderVars, groupVars, products, productSeq, storage, imgSeq, checkedOut>>

\* One INSERT INTO moqs on the client of the transaction.
cp_Moq(w) ==
    /\ pc[w] = "cp_moq"
    /\ \/ /\ loc' = [loc EXCEPT
                 ![w].pendIns = @ \cup { [ id |-> moqSeq,
                                           product_id |-> loc[w].productId,
                                           moq |-> loc[w].list[loc[w].i].moq,
                                           rate |-> loc[w].list[loc[w].i].rate ] },
                 ![w].i = @ + 1]
          /\ moqSeq' = moqSeq + 1
          /\ pc' = [pc EXCEPT ![w] =
                      IF loc[w].i = Len(loc[w].list) THEN "cp_commit" ELSE "cp_moq"]
       \/ /\ pc' = [pc EXCEPT ![w] = "cp_rollback"]
          /\ UNCHANGED <<loc, moqSeq>>
    /\ UNCHANGED <<orderVars, groupVars, products, moqs, productSeq, storage, imgSeq, checkedOut>>

\* COMMIT, release, return productId.
cp_Commit(w) ==
    /\ pc[w] = "cp_commit"
    /\ \/ /\ products' = products @@
                 [id \in {loc[w].productId} |-> CHOOSE r \in loc[w].pendProduct : TRUE]
          /\ moqs' = moqs \cup loc[w].pendIns
          /\ checkedOut' = checkedOut - 1
          /\ loc' = [loc EXCEPT ![w].ok = TRUE, ![w].pendProduct = {},
                                ![w].pendIns = {}]
          /\ pc' = [pc EXCEPT ![w] = "done"]
       \/ /\ pc' = [pc EXCEPT ![w] = "cp_rollback"]
          /\ UNCHANGED <<products, moqs, loc, checkedOut>>
    /\ UNCHANGED <<orderVars, groupVars, productSeq, moqSeq, storage, imgSeq>>

\* ROLLBACK, release, rethrow; the uploaded images are not touched. The
\* ROLLBACK is awaited in the catch block outside any try: when it fails,
\* its error is the one that leaves the method.
cp_Rollback(w) ==
    /\ pc[w] = "cp_rollback"
    /\ checkedOut' = checkedOut - 1
    /\ \E e \in {"statement", "rollback"} :
          loc' = [loc EXCEPT ![w].ok = FALSE, ![w].pendProduct = {},
                             ![w].pendIns = {}, ![w].thrown = e]
    /\ pc' = [pc EXCEPT ![w] = "done"]
    /\ UNCHANGED <<orderVars, productVars, groupVars>>

\* ------------------- POST /products-with-image-moqs, ProductRepository.createWithMOQs
\* upload.single('image') has stored the file (when the request carries one)
\* before the handler body runs.
ph_Begin(w, data, list, hasImage) ==
    /\ pc[w] = "idle"
    /\ productSeq <= MaxProducts
    /\ moqSeq + Len(list) <= MaxMoqId + 1
    /\ hasImage => imgSeq <= MaxImages
    /\ storage' = IF hasImage THEN storage \cup {imgSeq} ELSE storage
    /\ imgSeq' = IF hasImage THEN imgSeq + 1 ELSE imgSeq
    /\ pc' = [pc EXCEPT ![w] = "ph_handle"]
    /\ loc' = [loc EXCEPT ![w] =
                 [ op |-> "createWithMOQs", data |-> data,
                   list |-> list, uploading |-> {},
                   uploaded |-> [s \in Slots |->
                                   IF hasImage /\ s = "image_url"
                                   THEN imgSeq ELSE NoImage],
                   productId |-> 0, i |-> 1, began |-> FALSE,
                   pendProduct |-> {}, pendIns |-> {}, ok |-> FALSE,
                   thrown |-> "none" ]]
    /\ UNCHANGED <<orderVars, groupVars, products, moqs, productSeq, moqSeq, checkedOut>>

\* The handler body up to its first await: a request without name or price
\* is answered 400 at once; otherwise createWithMOQs takes a connection and
\* begins the transaction.
ph_Handle(w) ==
    /\ pc[w] = "ph_handle"
    /\ IF loc[w].data.name = "" \/ loc[w].data.price = 0
       THEN /\ pc' = [pc EXCEPT ![w] = "done"]
            /\ UNCHANGED <<checkedOut, loc>>
       ELSE /\ checkedOut < PoolMax
            /\ checkedOut' = checkedOut + 1
            /\ loc' = [loc EXCEPT ![w].began = TRUE]
            /\ pc' = [pc EXCEPT ![w] = "cwm_product"]
    /\ UNCHANGED <<orderVars, productVars, groupVars>>

\* INSERT INTO products on the connection of the transaction.
cwm_Product(w) ==
    /\ pc[w] = "cwm_product"
    /\ \/ /\ loc' = [loc EXCEPT
                 ![w].productId = productSeq,
                 ![w].pendProduct = {NewProductRow(loc[w].data, loc[w].uploaded)}]
          /\ productSeq' = productSeq + 1
          /\ pc' = [pc EXCEPT ![w] =
                      IF Len(loc[w].list) > 0 THEN "cwm_moq" ELSE "cwm_commit"]
       \/ /\ pc' = [pc EXCEPT ![w] = "cwm_rollback"]
          /\ UNCHANGED <<loc, productSeq>>
    /\ UNCHANGED <<orderVars, groupVars, products, moqs, moqSeq, storage, imgSeq, checkedOut>>

\* One INSERT INTO moqs on the connection of the transaction.
cwm_Moq(w) ==
    /\ pc[w] = "cwm_moq"
    /\ \/ /\ loc' = [loc EXCEPT
                 ![w].pendIns = @ \cup { [ id |-> moqSeq,
                                           product_id |-> loc[w].productId,
                                           moq |-> loc[w].list[loc[w].i].moq,
                                           rate |-> loc[w].list[loc[w].i].rate ] },
                 ![w].i = @ + 1]
          /\ moqSeq' = moqSeq + 1
          /\ pc' = [pc EXCEPT ![w] =
                      IF loc[w].i = Len(loc[w].list) THEN "cwm_commit" ELSE "cwm_moq"]
       \/ /\ pc' = [pc EXCEPT ![w] = "cwm_rollback"]
          /\ UNCHANGED <<loc, moqSeq>>
    /\ UNCHANGED <<orderVars, groupVars, products, moqs, productSeq, storage, imgSeq, checkedOut>>

\* commit(), release, return { productId, moqIds }.
cwm_Commit(w) ==
    /\ pc[w] = "cwm_commit"
    /\ \/ /\ products' = products @@
                 [id \in {loc[w].productId} |-> CHOOSE r \in loc[w].pendProduct : TRUE]
          /\ moqs' = moqs \cup loc[w].pendIns
          /\ checkedOut' = checkedOut - 1
          /\ loc' = [loc EXCEPT ![w].ok = TRUE, ![w].pendProduct = {},
                                ![w].pendIns = {}]
          /\ pc' = [pc EXCEPT ![w] = "done"]
       \/ /\ pc' = [pc EXCEPT ![w] = "cwm_rollback"]
          /\ UNCHANGED <<products, moqs, loc, checkedOut>>
    /\ UNCHANGED <<orderVars, groupVars, productSeq, moqSeq, storage, imgSeq>>

\* rollback(), release, rethrow into the handler's catch block; when the
\* rollback fails, its error is the one that is thrown.
cwm_Rollback(w) ==
    /\ pc[w] = "cwm_rollback"
    /\ checkedOut' = checkedOut - 1
    /\ \E e \in {"statement", "rollback"} :
          loc' = [loc EXCEPT ![w].pendProduct = {}, ![w].pendIns = {},
                             ![w].thrown = e]
    /\ pc' = [pc EXCEPT ![w] = "ph_cleanup"]
    /\ UNCHANGED <<orderVars, productVars, groupVars>>

\* The handler's catch block: unlink the uploaded file if there is one; a
\* failure of the unlink is logged only.  Then the 500 response.
ph_Cleanup(w) ==
    /\ pc[w] = "ph_cleanup"
    /\ \/ storage' = storage \ {loc[w].uploaded["image_url"]}
       \/ UNCHANGED storage
    /\ loc' = [loc EXCEPT ![w].ok = FALSE]
    /\ pc' = [pc EXCEPT ![w] = "done"]
    /\ UNCHANGED <<orderVars, groupVars, products, moqs, productSeq, moqSeq, imgSeq, checkedOut>>

NextProducts ==
    \/ \E data \in ProductInputs, list \in MoqLists, images \in SUBSET Slots :
          cp_Begin(1, data, list, images)
    \/ \E s \in Slots : cp_Upload(1, s)
    \/ cp_Product(1)
    \/ cp_Moq(1)
    \/ cp_Commit(1)
    \/ cp_Rollback(1)
    \/ \E data \in ProductInputs, list \in MoqLists, hasImage \in BOOLEAN :
          ph_Begin(1, data, list, hasImage)
    \/ ph_Handle(1)
    \/ cwm_Product(1)
    \/ cwm_Moq(1)
    \/ cwm_Commit(1)
    \/ cwm_Rollback(1)
    \/ ph_Cleanup(1)
    \/ Return(1)

SpecProducts == Init /\ [][NextProducts]_vars

\* ===================================================================
\* Updating a product
\* ===================================================================

ProductIds == 1..MaxProducts

\* Fields handed to the update operations; name "" and price 0 stand for a
\* field that was not supplied.
UpdateInputs ==
    { [name |-> "Gadget", price |-> 0],
      [name |-> "", price |-> 0] }

\* The moqs argument of the update operations: <<>> when it was not supplied,
\* <<list>> when it was (the list may be empty).
MoqArgs == {<<>>} \cup { <<list>> : list \in MoqLists }

\* The row after UPDATE products SET <fields supplied>, <slots uploaded>.
UpdatedRow(row, data, images, uploaded) ==
    [ name |-> IF data.name # "" THEN data.name ELSE row.name,
      price |-> IF data.price # 0 THEN data.price ELSE row.price,
      image_url |-> IF "image_url" \in images
                    THEN uploaded["image_url"] ELSE row.image_url,
      image_url2 |-> IF "image_url2" \in images
                     THEN uploaded["image_url2"] ELSE row.image_url2,
      groupid |-> row.groupid ]

\* updates.length > 0
HasUpdates(l) == l.data.name # "" \/ l.data.price # 0 \/ l.images # {}

\* Where updateProductWithImages continues after the UPDATE, and after the
\* images have been handled.
UpAfterUpdate(l) == IF l.moqsArg # <<>> THEN "up_moqdelete" ELSE "up_commit"
UpAfterImages(l) == IF HasUpdates(l) THEN "up_update" ELSE UpAfterUpdate(l)

\* ------------------------------------ ProductService.updateProductWithImages
\* pool.connect() and BEGIN; images = {} stands for no images argument.  The
\* field result is what the caller receives: the value returned, or "thrown".
up_Begin(w, productId, data, moqsArg, images) ==
    /\ pc[w] = "idle"
    /\ moqsArg # <<>> => moqSeq + Len(moqsArg[1]) <= MaxMoqId + 1
    /\ imgSeq + Cardinality(images) <= MaxImages + 1
    /\ checkedOut < PoolMax
    /\ checkedOut' = checkedOut + 1
    /\ pc' = [pc EXCEPT ![w] = "up_select"]
    /\ loc' = [loc EXCEPT ![w] =
                 [ op |-> "updateProductWithImages", productId |-> productId,
                   data |-> data, moqsArg |-> moqsArg,
                   list |-> IF moqsArg = <<>> THEN <<>> ELSE moqsArg[1],
                   images |-> images,
                   currentProduct |-> [s \in Slots |-> NoImage],
                   deleting |-> {}, uploading |-> {},
                   uploaded |-> [s \in Slots |-> NoImage],
                   i |-> 1,
                   pendProduct |-> {}, pendDel |-> {}, pendIns |-> {},
                   result |-> "none", ok |-> FALSE ]]
    /\ UNCHANGED <<orderVars, productVars, groupVars>>

\* SELECT image_url, ... FROM products WHERE id = $1 on the client of the
\* transaction; no row: throw 'Product not found'.  With images, the old image
\* of every slot that gets a new one is queued for deleteOldImages.
up_Select(w) ==
    /\ pc[w] = "up_select"
    /\ \/ /\ loc[w].productId \in DOMAIN products
          /\ LET row == products[loc[w].productId]
                 old == { s \in loc[w].images : row[s] # NoImage }
             IN /\ loc' = [loc EXCEPT
                       ![w].currentProduct = [s \in Slots |-> row[s]],
                       ![w].deleting = old,
                       ![w].uploading = loc[w].images]
                /\ pc' = [pc EXCEPT ![w] =
                            IF old # {} THEN "up_delete"
                            ELSE IF loc[w].images # {} THEN "up_upload"
                            ELSE UpAfterImages(loc[w])]
       \/ /\ pc' = [pc EXCEPT ![w] = "up_rollback"]
          /\ UNCHANGED loc
    /\ UNCHANGED <<orderVars, productVars, groupVars, checkedOut>>

\* deleteOldImages: the deletions run concurrently and each settles on its
\* own; a failed deletion is caught and logged.
up_Delete(w, s) ==
    /\ pc[w] = "up_delete"
    /\ s \in loc[w].deleting
    /\ \/ storage' = storage \ {loc[w].currentProduct[s]}
       \/ UNCHANGED storage
    /\ loc' = [loc EXCEPT ![w].deleting = @ \ {s}]
    /\ pc' = [pc EXCEPT ![w] =
                IF loc[w].deleting = {s} THEN "up_upload" ELSE "up_delete"]
    /\ UNCHANGED <<orderVars, groupVars, products, moqs, productSeq, moqSeq, imgSeq, checkedOut>>

\* uploadProductImages(images, productId), as in createProductWithImages.
up_Upload(w, s) ==
    /\ pc[w] = "up_upload"
    /\ s \in loc[w].uploading
    /\ \/ /\ storage' = storage \cup {imgSeq}
          /\ imgSeq' = imgSeq + 1
          /\ loc' = [loc EXCEPT ![w].uploaded[s] = imgSeq,
                                ![w].uploading = @ \ {s}]
       \/ /\ loc' = [loc EXCEPT ![w].uploading = @ \ {s}]
          /\ UNCHANGED <<storage, imgSeq>>
    /\ pc' = [pc EXCEPT ![w] =
                IF loc[w].uploading = {s} THEN UpAfterImages(loc[w]) ELSE "up_upload"]
    /\ UNCHANGED <<orderVars, groupVars, products, moqs, productSeq, moqSeq, checkedOut>>

\* UPDATE products SET ... WHERE id = $n on the client of the transaction.
up_Update(w) ==
    /\ pc[w] = "up_update"
    /\ \/ /\ loc' = [loc EXCEPT ![w].pendProduct =
                       IF loc[w].productId \in DOMAIN products
                       THEN { UpdatedRow(products[loc[w].productId], loc[w].data,
                                         loc[w].images, loc[w].uploaded) }
                       ELSE {}]
          /\ pc' = [pc EXCEPT ![w] = UpAfterUpdate(loc[w])]
       \/ /\ pc' = [pc EXCEPT ![w] = "up_rollback"]
          /\ UNCHANGED loc
    /\ UNCHANGED <<orderVars, productVars, groupVars, checkedOut>>

\* A DELETE of the tiers that writes through at once, outside the
\* transaction.
up_MoqDelete_Autocommit(w) ==
    /\ pc[w] = "up_moqdelete"
    /\ \/ /\ moqs' = moqs \ MoqsOf(loc[w].productId)
          /\ pc' = [pc EXCEPT ![w] =
                      IF Len(loc[w].list) > 0 THEN "up_moq" ELSE "up_commit"]
       \/ /\ pc' = [pc EXCEPT ![w] = "up_rollback"]
          /\ UNCHANGED moqs
    /\ UNCHANGED <<orderVars, groupVars, products, productSeq, moqSeq, storage, imgSeq,
                   checkedOut, loc>>

\* DELETE FROM moqs WHERE product_id = $1 on the client of the transaction.
up_MoqDelete(w) ==
    /\ pc[w] = "up_moqdelete"
    /\ \/ /\ loc' = [loc EXCEPT ![w].pendDel = MoqsOf(loc[w].productId)]
          /\ pc' = [pc EXCEPT ![w] =
                      IF Len(loc[w].list) > 0 THEN "up_moq" ELSE "up_commit"]
       \/ /\ pc' = [pc EXCEPT ![w] = "up_rollback"]
          /\ UNCHANGED loc
    /\ UNCHANGED <<orderVars, productVars, groupVars, checkedOut>>

\* One INSERT INTO moqs on the client of the transaction.
up_Moq(w) ==
    /\ pc[w] = "up_moq"
    /\ \/ /\ loc' = [loc EXCEPT
                 ![w].pendIns = @ \cup { [ id |-> moqSeq,
                                           product_id |-> loc[w].productId,
                                           moq |-> loc[w].list[loc[w].i].moq,
                                           rate |-> loc[w].list[loc[w].i].rate ] },
                 ![w].i = @ + 1]
          /\ moqSeq' = moqSeq + 1
          /\ pc' = [pc EXCEPT ![w] =
                      IF loc[w].i = Len(loc[w].list) THEN "up_commit" ELSE "up_moq"]
       \/ /\ pc' = [pc EXCEPT ![w] = "up_rollback"]
          /\ UNCHANGED <<loc, moqSeq>>
    /\ UNCHANGED <<orderVars, groupVars, products, moqs, productSeq, storage, imgSeq, checkedOut>>

\* The committed products table after the pending UPDATE of a call is applied.
ApplyUpdate(productId, pendProduct) ==
    [ p \in DOMAIN products |->
        IF p = productId /\ pendProduct # {}
        THEN CHOOSE r \in pendProduct : TRUE
        ELSE products[p] ]

\* COMMIT, release, return true.
up_Commit(w) ==
    /\ pc[w] = "up_commit"
    /\ \/ /\ products' = ApplyUpdate(loc[w].productId, loc[w].pendProduct)
          /\ moqs' = (moqs \ loc[w].pendDel) \cup loc[w].pendIns
          /\ checkedOut' = checkedOut - 1
          /\ loc' = [loc EXCEPT ![w].ok = TRUE, ![w].result = "true",
                                ![w].pendProduct = {},
                                ![w].pendDel = {}, ![w].pendIns = {}]
          /\ pc' = [pc EXCEPT ![w] = "done"]
       \/ /\ pc' = [pc EXCEPT ![w] = "up_rollback"]
          /\ UNCHANGED <<products, moqs, loc, checkedOut>>
    /\ UNCHANGED <<orderVars, groupVars, productSeq, moqSeq, storage, imgSeq>>

\* ROLLBACK, release, rethrow.
up_Rollback(w) ==
    /\ pc[w] = "up_rollback"
    /\ checkedOut' = checkedOut - 1
    /\ loc' = [loc EXCEPT ![w].ok = FALSE, ![w].result = "thrown",
                          ![w].pendProduct = {},
                          ![w].pendDel = {}, ![w].pendIns = {}]
    /\ pc' = [pc EXCEPT ![w] = "done"]
    /\ UNCHANGED <<orderVars, productVars, groupVars>>

\* -------------------------------------- ProductRepository.updateWithMOQs
\* The row after UPDATE products SET name = ?, price = ?, description = ?,
\* image_url = ?, active = ?: a field that was not supplied is written with
\* its default ('' , 0, null).
DefaultedRow(row, data) ==
    [ name |-> data.name, price |-> data.price,
      image_url |-> NoImage, image_url2 |-> row.image_url2,
      groupid |-> row.groupid ]

\* Where updateWithMOQs continues after the UPDATE.
UwAfterUpdate(l) == IF l.moqsArg # <<>> THEN "uw_moqdelete" ELSE "uw_commit"

\* getConnection() and beginTransaction().
uw_Begin(w, productId, data, moqsArg) ==
    /\ pc[w] = "idle"
    /\ moqsArg # <<>> => moqSeq + Len(moqsArg[1]) <= MaxMoqId + 1
    /\ checkedOut < PoolMax
    /\ checkedOut' = checkedOut + 1
    /\ pc' = [pc EXCEPT ![w] =
                IF data.name # "" \/ data.price # 0
                THEN "uw_update"
                ELSE IF moqsArg # <<>> THEN "uw_moqdelete" ELSE "uw_commit"]
    /\ loc' = [loc EXCEPT ![w] =
                 [ op |-> "updateWithMOQs", productId |-> productId,
                   data |-> data, moqsArg |-> moqsArg,
                   list |-> IF moqsArg = <<>> THEN <<>> ELSE moqsArg[1],
                   i |-> 1, deleted |-> 0,
                   pendProduct |-> {}, pendDel |-> {}, pendIns |-> {},
                   ok |-> FALSE ]]
    /\ UNCHANGED <<orderVars, productVars, groupVars>>

\* UPDATE products SET ... WHERE id = ? on the connection of the transaction.
uw_Update(w) ==
    /\ pc[w] = "uw_update"
    /\ \/ /\ loc' = [loc EXCEPT ![w].pendProduct =
                       IF loc[w].productId \in DOMAIN products
                       THEN { DefaultedRow(products[loc[w].productId], loc[w].data) }
                       ELSE {}]
          /\ pc' = [pc EXCEPT ![w] = UwAfterUpdate(loc[w])]
       \/ /\ pc' = [pc EXCEPT ![w] = "uw_rollback"]
          /\ UNCHANGED loc
    /\ UNCHANGED <<orderVars, productVars, groupVars, checkedOut>>

\* DELETE FROM moqs WHERE product_id = ?; moqChanges.deleted = affectedRows.
uw_MoqDelete(w) ==
    /\ pc[w] = "uw_moqdelete"
    /\ \/ /\ loc' = [loc EXCEPT
                 ![w].pendDel = MoqsOf(loc[w].productId),
                 ![w].deleted = Cardinality(MoqsOf(loc[w].productId))]
          /\ pc' = [pc EXCEPT ![w] =
                      IF Len(loc[w].list) > 0 THEN "uw_moq" ELSE "uw_commit"]
       \/ /\ pc' = [pc EXCEPT ![w] = "uw_rollback"]
          /\ UNCHANGED loc
    /\ UNCHANGED <<orderVars, productVars, groupVars, checkedOut>>

\* One INSERT INTO moqs on the connection of the transaction.
uw_Moq(w) ==
    /\ pc[w] = "uw_moq"
    /\ \/ /\ loc' = [loc EXCEPT
                 ![w].pendIns = @ \cup { [ id |-> moqSeq,
                                           product_id |-> loc[w].productId,
                                           moq |-> loc[w].list[loc[w].i].moq,
                                           rate |-> loc[w].list[loc[w].i].rate ] },
                 ![w].i = @ + 1]
          /\ moqSeq' = moqSeq + 1
          /\ pc' = [pc EXCEPT ![w] =
                      IF loc[w].i = Len(loc[w].list) THEN "uw_commit" ELSE "uw_moq"]
       \/ /\ pc' = [pc EXCEPT ![w] = "uw_rollback"]
          /\ UNCHANGED <<loc, moqSeq>>
    /\ UNCHANGED <<orderVars, groupVars, products, moqs, productSeq, storage, imgSeq, checkedOut>>

\* commit(), release, return the change summary.
uw_Commit(w) ==
    /\ pc[w] = "uw_commit"
    /\ \/ /\ products' = ApplyUpdate(loc[w].productId, loc[w].pendProduct)
          /\ moqs' = (moqs \ loc[w].pendDel) \cup loc[w].pendIns
          /\ checkedOut' = checkedOut - 1
          /\ loc' = [loc EXCEPT ![w].ok = TRUE, ![w].pendProduct = {},
                                ![w].pendDel = {}, ![w].pendIns = {}]
          /\ pc' = [pc EXCEPT ![w] = "done"]
       \/ /\ pc' = [pc EXCEPT ![w] = "uw_rollback"]
          /\ UNCHANGED <<products, moqs, loc, checkedOut>>
    /\ UNCHANGED <<orderVars, groupVars, productSeq, moqSeq, storage, imgSeq>>

\* rollback(), release, rethrow.
uw_Rollback(w) ==
    /\ pc[w] = "uw_rollback"
    /\ checkedOut' = checkedOut - 1
    /\ loc' = [loc EXCEPT ![w].ok = FALSE, ![w].pendProduct = {},
                          ![w].pendDel = {}, ![w].pendIns = {}]
    /\ pc' = [pc EXCEPT ![w] = "done"]
    /\ UNCHANGED <<orderVars, productVars, groupVars>>

NextUpdate ==
    \/ \E data \in ProductInputs, list \in MoqLists, images \in SUBSET Slots :
          cp_Begin(1, data, list, images)
    \/ \E s \in Slots : cp_Upload(1, s)
    \/ cp_Product(1)
    \/ cp_Moq(1)
    \/ cp_Commit(1)
    \/ cp_Rollback(1)
    \/ \E p \in ProductIds, data \in UpdateInputs, a \in MoqArgs,
          images \in SUBSET Slots : up_Begin(1, p, data, a, images)
    \/ up_Select(1)
    \/ \E s \in Slots : up_Delete(1, s)
    \/ \E s \in Slots : up_Upload(1, s)
    \/ up_Update(1)
    \/ up_MoqDelete(1)
    \/ up_Moq(1)
    \/ up_Commit(1)
    \/ up_Rollback(1)
    \/ \E p \in ProductIds, data \in UpdateInputs, a \in MoqArgs :
          uw_Begin(1, p, data, a)
    \/ uw_Update(1)
    \/ uw_MoqDelete(1)
    \/ uw_Moq(1)
    \/ uw_Commit(1)
    \/ uw_Rollback(1)
    \/ Return(1)

SpecUpdate == Init /\ [][NextUpdate]_vars

\* ===================================================================
\* Deleting a product
\* ===================================================================

\* ------------------------------------------- ProductRepository.delete(id)
\* getConnection() and beginTransaction().  The field stored keeps the image
\* references of the row that were present in storage when the call read
\* the row.
dp_Begin(w, id) ==
    /\ pc[w] = "idle"
    /\ checkedOut < PoolMax
    /\ checkedOut' = checkedOut + 1
    /\ pc' = [pc EXCEPT ![w] = "dp_moqs"]
    /\ loc' = [loc EXCEPT ![w] =
                 [ op |-> "delete", productId |-> id,
                   product |-> [s \in Slots |-> NoImage],
                   stored |-> {}, deleting |-> {}, invoked |-> <<>>,
                   pendDel |-> {}, pendRow |-> FALSE, ok |-> FALSE ]]
    /\ UNCHANGED <<orderVars, productVars, groupVars>>

\* DELETE FROM moqs WHERE product_id = ? on the connection of the transaction.
dp_Moqs(w) ==
    /\ pc[w] = "dp_moqs"
    /\ \/ /\ loc' = [loc EXCEPT ![w].pendDel = MoqsOf(loc[w].productId)]
          /\ pc' = [pc EXCEPT ![w] = "dp_find"]
       \/ /\ pc' = [pc EXCEPT ![w] = "dp_rollback"]
          /\ UNCHANGED loc
    /\ UNCHANGED <<orderVars, productVars, groupVars, checkedOut>>

\* this.findById(id) through the pool, then, synchronously, the unlink of the
\* file of image_url when the product has one and the file exists; an error
\* of the unlink is caught and logged.
dp_Find(w) ==
    /\ pc[w] = "dp_find"
    /\ \/ /\ checkedOut < PoolMax
          /\ LET id == loc[w].productId
                 ref == IF id \in DOMAIN products
                        THEN products[id].image_url ELSE NoImage
             IN IF ref # NoImage /\ ref \in storage
                THEN /\ \/ storage' = storage \ {ref}
                        \/ UNCHANGED storage
                     /\ loc' = [loc EXCEPT
                           ![w].product = [s \in Slots |-> products[id][s]],
                           ![w].stored = {ref},
                           ![w].invoked = Append(@, ref)]
                ELSE /\ UNCHANGED storage
                     /\ loc' = [loc EXCEPT ![w].product =
                           [s \in Slots |-> IF id \in DOMAIN products
                                            THEN products[id][s] ELSE NoImage]]
          /\ pc' = [pc EXCEPT ![w] = "dp_row"]
       \/ /\ pc' = [pc EXCEPT ![w] = "dp_rollback"]
          /\ UNCHANGED <<loc, storage>>
    /\ UNCHANGED <<orderVars, groupVars, products, moqs, productSeq, moqSeq, imgSeq, checkedOut>>

\* DELETE FROM products WHERE id = ? on the connection of the transaction.
dp_Row(w) ==
    /\ pc[w] = "dp_row"
    /\ \/ /\ loc' = [loc EXCEPT ![w].pendRow = loc[w].productId \in DOMAIN products]
          /\ pc' = [pc EXCEPT ![w] = "dp_commit"]
       \/ /\ pc' = [pc EXCEPT ![w] = "dp_rollback"]
          /\ UNCHANGED loc
    /\ UNCHANGED <<orderVars, productVars, groupVars, checkedOut>>

\* The committed products table without the row of an id.
WithoutProduct(id) == [ p \in DOMAIN products \ {id} |-> products[p] ]

\* commit(), release, return affectedRows > 0.
dp_Commit(w) ==
    /\ pc[w] = "dp_commit"
    /\ \/ /\ products' = IF loc[w].pendRow THEN WithoutProduct(loc[w].productId)
                                           ELSE products
          /\ moqs' = moqs \ loc[w].pendDel
          /\ checkedOut' = checkedOut - 1
          /\ loc' = [loc EXCEPT ![w].ok = loc[w].pendRow, ![w].pendDel = {},
                                ![w].pendRow = FALSE]
          /\ pc' = [pc EXCEPT ![w] = "done"]
       \/ /\ pc' = [pc EXCEPT ![w] = "dp_rollback"]
          /\ UNCHANGED <<products, moqs, loc, checkedOut>>
    /\ UNCHANGED <<orderVars, groupVars, productSeq, moqSeq, storage, imgSeq>>

\* rollback(), release, rethrow.
dp_Rollback(w) ==
    /\ pc[w] = "dp_rollback"
    /\ checkedOut' = checkedOut - 1
    /\ loc' = [loc EXCEPT ![w].ok = FALSE, ![w].pendDel = {}, ![w].pendRow = FALSE]
    /\ pc' = [pc EXCEPT ![w] = "done"]
    /\ UNCHANGED <<orderVars, productVars, groupVars>>

\* ------------------------------------------------ DELETE /products/:id
\* productRepo.findById(productId); 404 when there is no such product,
\* otherwise every non-empty image reference of the row is handed to
\* deleteOldImages.
dh_Find(w, id) ==
    /\ pc[w] = "idle"
    /\ checkedOut < PoolMax
    /\ LET found == id \in DOMAIN products
           old == IF found THEN { s \in Slots : products[id][s] # NoImage } ELSE {}
       IN /\ loc' = [loc EXCEPT ![w] =
                       [ op |-> "deleteProduct", productId |-> id,
                         product |-> [s \in Slots |->
                                        IF found THEN products[id][s] ELSE NoImage],
                         stored |-> IF found THEN RefsOf(products[id]) \cap storage
                                             ELSE {},
                         deleting |-> old, invoked |-> <<>>,
                         pendDel |-> {}, pendRow |-> FALSE, ok |-> FALSE ]]
          /\ pc' = [pc EXCEPT ![w] =
                      IF ~found THEN "done"
                      ELSE IF old # {} THEN "dh_delete" ELSE "dh_row"]
    /\ UNCHANGED <<orderVars, productVars, groupVars, checkedOut>>

\* deleteOldImages: imageService.deleteImage for one of the references; a
\* failed deletion is caught and logged.
dh_Delete(w, s) ==
    /\ pc[w] = "dh_delete"
    /\ s \in loc[w].deleting
    /\ \/ storage' = storage \ {loc[w].product[s]}
       \/ UNCHANGED storage
    /\ loc' = [loc EXCEPT ![w].deleting = @ \ {s},
                          ![w].invoked = Append(@, loc[w].product[s])]
    /\ pc' = [pc EXCEPT ![w] =
                IF loc[w].deleting = {s} THEN "dh_row" ELSE "dh_delete"]
    /\ UNCHANGED <<orderVars, groupVars, products, moqs, productSeq, moqSeq, imgSeq, checkedOut>>

\* productRepo.delete(productId): DELETE FROM "products" WHERE id = $1 through
\* the pool; the answer is success when a row was deleted.
dh_Row(w) ==
    /\ pc[w] = "dh_row"
    /\ checkedOut < PoolMax
    /\ \/ /\ products' = WithoutProduct(loc[w].productId)
          /\ loc' = [loc EXCEPT ![w].ok = loc[w].productId \in DOMAIN products]
       \/ /\ UNCHANGED products
          /\ loc' = [loc EXCEPT ![w].ok = FALSE]
    /\ pc' = [pc EXCEPT ![w] = "done"]
    /\ UNCHANGED <<orderVars, groupVars, moqs, productSeq, moqSeq, storage, imgSeq, checkedOut>>

NextDelete ==
    \/ \E data \in ProductInputs, list \in MoqLists, images \in SUBSET Slots :
          cp_Begin(1, data, list, images)
    \/ \E s \in Slots : cp_Upload(1, s)
    \/ cp_Product(1)
    \/ cp_Moq(1)
    \/ cp_Commit(1)
    \/ cp_Rollback(1)
    \/ \E p \in ProductIds : dp_Begin(1, p)
    \/ dp_Moqs(1)
    \/ dp_Find(1)
    \/ dp_Row(1)
    \/ dp_Commit(1)
    \/ dp_Rollback(1)
    \/ \E p \in ProductIds : dh_Find(1, p)
    \/ \E s \in Slots : dh_Delete(1, s)
    \/ dh_Row(1)
    \/ Return(1)

SpecDelete == Init /\ [][NextDelete]_vars

\* ===================================================================
\* Replacing the MOQ tiers of a product
\* ===================================================================

\* The rows another transaction has deleted and not yet committed: they are
\* locked until that transaction ends.
LockedByOther(w, rows) ==
    \E v \in Workers \ {w} :
        /\ loc[v].op = "setForProduct"
        /\ rows \cap loc[v].pendDel # {}

\* The INSERTs that running setForProduct calls have still to execute; used
\* only to keep the moqs id sequence within MaxMoqId.
RECURSIVE ToInsert(_)
ToInsert(ws) ==
    IF ws = {} THEN 0
    ELSE LET w == CHOOSE x \in ws : TRUE
         IN (IF loc[w].op = "setForProduct" /\ pc[w] # "done"
             THEN Len(loc[w].list) - (loc[w].i - 1) ELSE 0)
            + ToInsert(ws \ {w})

\* Where setForProduct continues after its DELETE.
SpAfterDelete(l) == IF Len(l.list) > 0 THEN "sp_insert" ELSE "sp_commit"

\* --------------------------------- MOQRepository.setForProduct(productId, moqs)
\* pool.connect() and BEGIN.
sp_Begin(w, productId, list) ==
    /\ pc[w] = "idle"
    /\ moqSeq + ToInsert(Workers) + Len(list) <= MaxMoqId + 1
    /\ checkedOut < PoolMax
    /\ checkedOut' = checkedOut + 1
    /\ pc' = [pc EXCEPT ![w] = "sp_delete"]
    /\ loc' = [loc EXCEPT ![w] =
                 [ op |-> "setForProduct", productId |-> productId,
                   list |-> list, i |-> 1, snapshot |-> {},
                   pendDel |-> {}, pendIns |-> {}, ok |-> FALSE ]]
    /\ UNCHANGED <<orderVars, productVars, groupVars>>

\* A DELETE that writes through at once, outside the transaction.
sp_Delete_Autocommit(w) ==
    /\ pc[w] = "sp_delete"
    /\ ~LockedByOther(w, MoqsOf(loc[w].productId))
    /\ \/ /\ moqs' = moqs \ MoqsOf(loc[w].productId)
          /\ pc' = [pc EXCEPT ![w] = SpAfterDelete(loc[w])]
       \/ /\ pc' = [pc EXCEPT ![w] = "sp_rollback"]
          /\ UNCHANGED moqs
    /\ UNCHANGED <<orderVars, groupVars, products, productSeq, moqSeq, storage, imgSeq,
                   checkedOut, loc>>

\* A DELETE that is left out when the list given is empty.
sp_Delete_UnlessEmpty(w) ==
    /\ pc[w] = "sp_delete"
    /\ ~LockedByOther(w, MoqsOf(loc[w].productId))
    /\ \/ /\ loc' = [loc EXCEPT ![w].pendDel =
                        IF Len(loc[w].list) = 0 THEN {}
                        ELSE MoqsOf(loc[w].productId)]
          /\ pc' = [pc EXCEPT ![w] = SpAfterDelete(loc[w])]
       \/ /\ pc' = [pc EXCEPT ![w] = "sp_rollback"]
          /\ UNCHANGED loc
    /\ UNCHANGED <<orderVars, productVars, groupVars, checkedOut>>

\* DELETE FROM moqs WHERE product_id = $1 on the client of the transaction,
\* none of the rows it finds being locked: the committed rows of the product
\* are deleted in the transaction.
sp_Delete(w) ==
    /\ pc[w] = "sp_delete"
    /\ ~LockedByOther(w, MoqsOf(loc[w].productId))
    /\ \/ /\ loc' = [loc EXCEPT ![w].pendDel = MoqsOf(loc[w].productId)]
          /\ pc' = [pc EXCEPT ![w] = SpAfterDelete(loc[w])]
       \/ /\ pc' = [pc EXCEPT ![w] = "sp_rollback"]
          /\ UNCHANGED loc
    /\ UNCHANGED <<orderVars, productVars, groupVars, checkedOut>>

\* The same DELETE when a row it finds is locked by another transaction: the
\* statement keeps the rows of its snapshot and waits for the lock.
sp_DeleteWait(w) ==
    /\ pc[w] = "sp_delete"
    /\ LockedByOther(w, MoqsOf(loc[w].productId))
    /\ loc' = [loc EXCEPT ![w].snapshot = MoqsOf(loc[w].productId)]
    /\ pc' = [pc EXCEPT ![w] = "sp_wait"]
    /\ UNCHANGED <<orderVars, productVars, groupVars, checkedOut>>

\* The lock is released.  Under READ COMMITTED (the default; no statement of
\* the program sets an isolation level) the DELETE goes on with the rows of
\* its snapshot that still exist; rows committed by the other transaction in
\* the meantime are not in the snapshot.
sp_DeleteResume(w) ==
    /\ pc[w] = "sp_wait"
    /\ ~LockedByOther(w, loc[w].snapshot)
    /\ \/ /\ loc' = [loc EXCEPT ![w].pendDel = loc[w].snapshot \cap moqs,
                                ![w].snapshot = {}]
          /\ pc' = [pc EXCEPT ![w] = SpAfterDelete(loc[w])]
       \/ /\ loc' = [loc EXCEPT ![w].snapshot = {}]
          /\ pc' = [pc EXCEPT ![w] = "sp_rollback"]
    /\ UNCHANGED <<orderVars, productVars, groupVars, checkedOut>>

\* One INSERT INTO moqs on the client of the transaction.
sp_Insert(w) ==
    /\ pc[w] = "sp_insert"
    /\ \/ /\ loc' = [loc EXCEPT
                 ![w].pendIns = @ \cup { [ id |-> moqSeq,
                                           product_id |-> loc[w].productId,
                                           moq |-> loc[w].list[loc[w].i].moq,
                                           rate |-> loc[w].list[loc[w].i].rate ] },
                 ![w].i = @ + 1]
          /\ moqSeq' = moqSeq + 1
          /\ pc' = [pc EXCEPT ![w] =
                      IF loc[w].i = Len(loc[w].list) THEN "sp_commit" ELSE "sp_insert"]
       \/ /\ pc' = [pc EXCEPT ![w] = "sp_rollback"]
          /\ UNCHANGED <<loc, moqSeq>>
    /\ UNCHANGED <<orderVars, groupVars, products, moqs, productSeq, storage, imgSeq, checkedOut>>

\* COMMIT, release, return true.
sp_Commit(w) ==
    /\ pc[w] = "sp_commit"
    /\ \/ /\ moqs' = (moqs \ loc[w].pendDel) \cup loc[w].pendIns
          /\ checkedOut' = checkedOut - 1
          /\ loc' = [loc EXCEPT ![w].ok = TRUE, ![w].pendDel = {},
                                ![w].pendIns = {}]
          /\ pc' = [pc EXCEPT ![w] = "done"]
       \/ /\ pc' = [pc EXCEPT ![w] = "sp_rollback"]
          /\ UNCHANGED <<moqs, loc, checkedOut>>
    /\ UNCHANGED <<orderVars, groupVars, products, productSeq, moqSeq, storage, imgSeq>>

\* ROLLBACK, release, rethrow.
sp_Rollback(w) ==
    /\ pc[w] = "sp_rollback"
    /\ checkedOut' = checkedOut - 1
    /\ loc' = [loc EXCEPT ![w].ok = FALSE, ![w].pendDel = {}, ![w].pendIns = {}]
    /\ pc' = [pc EXCEPT ![w] = "done"]
    /\ UNCHANGED <<orderVars, productVars, groupVars>>

\* One caller at a time.
NextReplace ==
    \/ \E p \in ProductIds, list \in ReplaceLists : sp_Begin(1, p, list)
    \/ sp_Delete(1)
    \/ sp_Insert(1)
    \/ sp_Commit(1)
    \/ sp_Rollback(1)
    \/ Return(1)

SpecReplace == Init /\ [][NextReplace]_vars

\* Callers running side by side, each on its own pooled client.
NextMoqs ==
    \E w \in Workers :
        \/ \E p \in ProductIds, list \in ReplaceLists : sp_Begin(w, p, list)
        \/ sp_Delete(w)
        \/ sp_DeleteWait(w)
        \/ sp_DeleteResume(w)
        \/ sp_Insert(w)
        \/ sp_Commit(w)
        \/ sp_Rollback(w)
        \/ Return(w)

SpecMoqs == Init /\ [][NextMoqs]_vars

\* ===================================================================
\* Claims about orders
\* ===================================================================

\* C1: createOrderWithDetails is all-or-nothing.  Once the call has returned
\* or thrown, a reader sees either the order row together with all of its
\* detail rows, or neither the order row nor any detail row bound to its id.
C1_AllOrNothing ==
    \A w \in Workers :
        (pc[w] = "done" /\ loc[w].op \in {"createOrderWithDetails", "createWithDetails"})
        => LET id == loc[w].orderId IN
             \/ /\ id \in DOMAIN orderfile
                /\ Cardinality(DetailsOf(id)) = Len(loc[w].details)
             \/ /\ id \notin DOMAIN orderfile
                /\ DetailsOf(id) = {}

\* The transitions of the order state machine of the design.
AllowedTransitions ==
    { <<"pending", "processing">>, <<"pending", "cancelled">>,
      <<"processing", "shipped">>, <<"processing", "cancelled">>,
      <<"shipped", "delivered">> }

\* C8: over any sequence of updateStatus, cancel, bulkUpdateStatus and
\* bulkCancel calls an order's status changes only along the allowed
\* transitions, and a cancelled order never changes status again.
C8_StatusMachine ==
    [][ \A id \in DOMAIN orderfile :
           \/ orderfile'[id].status = orderfile[id].status
           \/ <<orderfile[id].status, orderfile'[id].status>> \in AllowedTransitions
      ]_vars

\* C9: cancel(id) and bulkCancel(ids) are one combined transition.  The step
\* that runs the cancel leaves every addressed row with status 'cancelled'
\* and with the cancel flag holding the argument (1 when the argument is
\* left out), and no step changes a row's cancel flag without that row
\* having status 'cancelled' in the same step.
C9_CancelCombined ==
    [][ /\ lastStmt'.op \in {"cancel", "bulkCancel"} =>
              \A id \in lastStmt'.ids \cap DOMAIN orderfile' :
                 /\ orderfile'[id].status = "cancelled"
                 /\ orderfile'[id].cancel =
                       (IF lastStmt'.arg = <<>> THEN 1 ELSE lastStmt'.arg[1])
        /\ \A id \in DOMAIN orderfile :
              orderfile'[id].cancel # orderfile[id].cancel =>
                 orderfile'[id].status = "cancelled"
      ]_vars

\* A cancel without flag argument has just run on an existing order that was
\* created with the flag clear.
C9_Witness ==
    /\ lastStmt.op = "cancel"
    /\ lastStmt.arg = <<>>
    /\ \E id \in lastStmt.ids \cap DOMAIN orderfile :
          orderfile[id] = [status |-> "cancelled", cancel |-> 1]

\* ===================================================================
\* Claims about products, MOQ tiers and images
\* ===================================================================

CreateOps == {"createProductWithImages", "createWithMOQs"}
UpdateOps == {"updateProductWithImages", "updateWithMOQs"}
DeleteOps == {"delete", "deleteProduct"}

\* The rows are exactly the tiers of the list, one row for each element.
ExactlyList(rows, list) ==
    /\ Cardinality(rows) = Len(list)
    /\ TiersOfRows(rows) = TiersOfList(list)

\* C2: creating a product with MOQ tiers is atomic.  A product row becomes
\* visible only in a step that makes all MOQ rows of its list visible with
\* it, no MOQ row is ever visible for a product that is not, and a call that
\* ends in failure has made neither its product row nor any MOQ row visible.
C2_CreateAtomic ==
    [][ /\ \A id \in DOMAIN products' \ DOMAIN products :
              \E w \in Workers :
                 /\ loc[w].op \in CreateOps
                 /\ loc[w].productId = id
                 /\ ExactlyList({ r \in moqs' : r.product_id = id }, loc[w].list)
        /\ \A r \in moqs' : r.product_id \in DOMAIN products'
        /\ \A w \in Workers :
              ( /\ loc'[w].op \in CreateOps
                /\ pc[w] # "done" /\ pc'[w] = "done"
                /\ ~loc'[w].ok )
              => /\ loc'[w].productId \notin DOMAIN products'
                 /\ { r \in moqs' : r.product_id = loc'[w].productId } = {}
      ]_vars

\* A creation with a non-empty tier list has inserted the product and every
\* tier, failed at the commit and thrown; its product row is not visible.
C2_Witness ==
    \E w \in Workers :
        /\ pc[w] = "done"
        /\ loc[w].op \in CreateOps
        /\ ~loc[w].ok
        /\ loc[w].productId # 0
        /\ Len(loc[w].list) > 0
        /\ loc[w].i > Len(loc[w].list)
        /\ loc[w].productId \notin DOMAIN products

\* C3: when a creation whose transaction had begun fails after an image was
\* uploaded, the uploaded image is no longer in image storage once the call
\* has ended, and no product row references it.
C3_ImageCompensated ==
    \A w \in Workers :
        (pc[w] = "done" /\ loc[w].op \in CreateOps /\ loc[w].began /\ ~loc[w].ok)
        => \A s \in Slots :
              loc[w].uploaded[s] # NoImage
              => /\ loc[w].uploaded[s] \notin storage
                 /\ \A p \in DOMAIN products :
                       loc[w].uploaded[s] \notin RefsOf(products[p])

\* C4: in every state reachable through updateProductWithImages no product
\* row holds a reference to an image that is not in storage, and after a
\* successful commit every image the call uploaded is referenced by the
\* product row.
C4_NoDanglingImage ==
    /\ \A p \in DOMAIN products : RefsOf(products[p]) \subseteq storage
    /\ \A w \in Workers :
          (pc[w] = "done" /\ loc[w].op = "updateProductWithImages" /\ loc[w].ok)
          => \A s \in loc[w].images :
                loc[w].uploaded[s] # NoImage
                => loc[w].uploaded[s] \in RefsOf(products[loc[w].productId])

\* C5: setForProduct(P, L) replaces the tiers of P as one unit.  No step of
\* the call changes the visible MOQ rows of P, except its successful commit,
\* which leaves exactly the rows of L, all of them new; so a reader sees the
\* complete previous set or the complete new list, and a failed call leaves
\* the previous set.
C5_ReplaceAsUnit ==
    [][ \A w \in Workers :
          (loc[w].op = "setForProduct" /\ pc[w] # "done")
          => LET after == { r \in moqs' : r.product_id = loc[w].productId }
             IN IF pc'[w] = "done" /\ loc'[w].ok
                THEN ExactlyList(after, loc[w].list) /\ after \cap moqs = {}
                ELSE after = MoqsOf(loc[w].productId)
      ]_vars

\* A setForProduct on a product that has tiers has executed its DELETE and at
\* least one INSERT, failed and thrown; the product still has tiers.
C5_Witness ==
    \E w \in Workers :
        /\ pc[w] = "done"
        /\ loc[w].op = "setForProduct"
        /\ ~loc[w].ok
        /\ loc[w].i > 1
        /\ MoqsOf(loc[w].productId) # {}

\* C6: when two setForProduct calls for the same product have both
\* committed, the MOQ rows of the product are exactly the list of one of
\* them, never a mixture or union of both lists.
C6_LastCommitWins ==
    \A v \in Workers, w \in Workers :
        ( /\ v # w
          /\ pc[v] = "done" /\ loc[v].op = "setForProduct" /\ loc[v].ok
          /\ pc[w] = "done" /\ loc[w].op = "setForProduct" /\ loc[w].ok
          /\ loc[v].productId = loc[w].productId )
        => \/ ExactlyList(MoqsOf(loc[v].productId), loc[v].list)
           \/ ExactlyList(MoqsOf(loc[w].productId), loc[w].list)

\* The number of times the image adapter's delete was invoked for a reference.
Invocations(invoked, ref) ==
    Cardinality({ k \in 1..Len(invoked) : invoked[k] = ref })

\* C7: after a successful deletion of a product P that had stored images, no
\* MOQ row with product_id = P remains, P's row is absent, and the image
\* adapter's delete was invoked exactly once for each stored image of P.
C7_DeleteComplete ==
    \A w \in Workers :
        ( /\ pc[w] = "done" /\ loc[w].op \in DeleteOps /\ loc[w].ok
          /\ loc[w].stored # {} )
        => /\ MoqsOf(loc[w].productId) = {}
           /\ loc[w].productId \notin DOMAIN products
           /\ \A ref \in loc[w].stored : Invocations(loc[w].invoked, ref) = 1

\* C10: in an update a tier list that is supplied, the empty list included,
\* replaces the MOQ rows of the product with exactly that list in the
\* transaction of the row update: no step of the call changes the visible
\* product row or MOQ rows except its successful commit, which leaves exactly
\* the rows of the list, all of them new; without a tier list the commit
\* leaves the MOQ rows of the product as they were.
C10_MoqsWithUpdate ==
    [][ \A w \in Workers :
          (loc[w].op \in UpdateOps /\ pc[w] # "done")
          => LET after == { r \in moqs' : r.product_id = loc[w].productId }
             IN IF pc'[w] = "done" /\ loc'[w].ok
                THEN IF loc[w].moqsArg # <<>>
                     THEN ExactlyList(after, loc[w].list) /\ after \cap moqs = {}
                     ELSE after = MoqsOf(loc[w].productId)
                ELSE after = MoqsOf(loc[w].productId) /\ products' = products
      ]_vars

\* An update that was given the empty tier list has committed: the product
\* exists, the DELETE of the call removed rows, and no MOQ row is left.
C10_Witness ==
    \E w \in Workers :
        /\ pc[w] = "done"
        /\ loc[w].op = "updateWithMOQs"
        /\ loc[w].ok
        /\ loc[w].moqsArg = << <<>> >>
        /\ loc[w].deleted > 0
        /\ loc[w].productId \in DOMAIN products
        /\ MoqsOf(loc[w].productId) = {}

\* ===================================================================
\* Claims about error reporting and frame effects
\* ===================================================================

\* C11: updateProductWithImages called for a product id that has no row
\* returns the value false, with no row and no image changed.
C11_ReturnsFalseWhenAbsent ==
    \A w \in Workers :
        ( /\ pc[w] = "done" /\ loc[w].op = "updateProductWithImages"
          /\ loc[w].productId \notin DOMAIN products )
        => loc[w].result = "false"

\* C12: setForProduct for a product id that has no product row fails and
\* leaves the moqs table unchanged: the call does not end in success, and no
\* MOQ row is visible for a product that does not exist.
C12_NotFoundRefused ==
    /\ \A w \in Workers :
          ( /\ pc[w] = "done" /\ loc[w].op = "setForProduct"
            /\ loc[w].productId \notin DOMAIN products )
          => ~loc[w].ok
    /\ \A r \in moqs : r.product_id \in DOMAIN products

\* C13: a storage error does not fail deleteProduct.  A step in which the
\* deletion of a stored image is attempted and fails lets the call go on to
\* the deletion of the product row, and a call that reports success after
\* such a failure has deleted the product row and every MOQ row of the
\* product.
C13_StorageErrorTolerated ==
    [][ \A w \in Workers :
          (loc[w].op \in DeleteOps /\ pc[w] # "done")
          => /\ (Len(loc'[w].invoked) > Len(loc[w].invoked) /\ storage' = storage)
                => pc'[w] \in {"dh_delete", "dh_row", "dp_row"}
             /\ ( /\ pc'[w] = "done" /\ loc'[w].ok
                  /\ \E k \in 1..Len(loc'[w].invoked) :
                        loc'[w].invoked[k] \in storage' )
                => /\ loc[w].productId \notin DOMAIN products'
                   /\ { r \in moqs' : r.product_id = loc[w].productId } = {}
      ]_vars

\* ===================================================================
\* Deleting an order
\* ===================================================================

\* ------------------------------------------------ OrderRepository.delete(id)
\* getConnection() and beginTransaction().  affectedRows is -1 until the
\* DELETE of the order row has run.
do_Begin(w, id) ==
    /\ pc[w] = "idle"
    /\ checkedOut < PoolMax
    /\ checkedOut' = checkedOut + 1
    /\ pc' = [pc EXCEPT ![w] = "do_details"]
    /\ loc' = [loc EXCEPT ![w] =
                 [ op |-> "deleteOrder", orderId |-> id, affectedRows |-> -1,
                   pendDetails |-> {}, pendOrder |-> {}, ok |-> FALSE ]]
    /\ UNCHANGED <<orderVars, productVars, groupVars>>

\* A DELETE of the detail rows that writes through at once, outside the
\* transaction.
do_Details_Autocommit(w) ==
    /\ pc[w] = "do_details"
    /\ \/ /\ orderdetail' = orderdetail \ DetailsOf(loc[w].orderId)
          /\ pc' = [pc EXCEPT ![w] = "do_order"]
       \/ /\ pc' = [pc EXCEPT ![w] = "do_rollback"]
          /\ UNCHANGED orderdetail
    /\ UNCHANGED <<orderfile, orderSeq, lastStmt, productVars, groupVars, checkedOut, loc>>

\* DELETE FROM orderdetail WHERE orderId = ? on the connection of the
\* transaction.
do_Details(w) ==
    /\ pc[w] = "do_details"
    /\ \/ /\ loc' = [loc EXCEPT ![w].pendDetails = DetailsOf(loc[w].orderId)]
          /\ pc' = [pc EXCEPT ![w] = "do_order"]
       \/ /\ pc' = [pc EXCEPT ![w] = "do_rollback"]
          /\ UNCHANGED loc
    /\ UNCHANGED <<orderVars, productVars, groupVars, checkedOut>>

\* DELETE FROM orderfile WHERE id = ? on the connection of the transaction.
do_Order(w) ==
    /\ pc[w] = "do_order"
    /\ \/ /\ loc' = [loc EXCEPT
                 ![w].pendOrder = {loc[w].orderId} \cap DOMAIN orderfile,
                 ![w].affectedRows =
                     IF loc[w].orderId \in DOMAIN orderfile THEN 1 ELSE 0]
          /\ pc' = [pc EXCEPT ![w] = "do_commit"]
       \/ /\ pc' = [pc EXCEPT ![w] = "do_rollback"]
          /\ UNCHANGED loc
    /\ UNCHANGED <<orderVars, productVars, groupVars, checkedOut>>

\* commit(), release, return affectedRows > 0.
do_Commit(w) ==
    /\ pc[w] = "do_commit"
    /\ \/ /\ orderfile' = [o \in DOMAIN orderfile \ loc[w].pendOrder |-> orderfile[o]]
          /\ orderdetail' = orderdetail \ loc[w].pendDetails
          /\ checkedOut' = checkedOut - 1
          /\ loc' = [loc EXCEPT ![w].ok = TRUE, ![w].pendDetails = {},
                                ![w].pendOrder = {}]
          /\ pc' = [pc EXCEPT ![w] = "done"]
       \/ /\ pc' = [pc EXCEPT ![w] = "do_rollback"]
          /\ UNCHANGED <<orderfile, orderdetail, loc, checkedOut>>
    /\ UNCHANGED <<orderSeq, lastStmt, productVars, groupVars>>

\* rollback(), release, rethrow.
do_Rollback(w) ==
    /\ pc[w] = "do_rollback"
    /\ checkedOut' = checkedOut - 1
    /\ loc' = [loc EXCEPT ![w].ok = FALSE, ![w].pendDetails = {},
                          ![w].pendOrder = {}]
    /\ pc' = [pc EXCEPT ![w] = "done"]
    /\ UNCHANGED <<orderVars, productVars, groupVars>>

\* Orders are created with their details and deleted, one call at a time.
NextOrderDelete ==
    \/ \E o \in OrderInputs, ds \in DetailLists : cw_Begin(1, o, ds)
    \/ cw_Order(1)
    \/ cm_Connect(1)
    \/ cm_Insert(1)
    \/ cm_Commit(1)
    \/ cm_Rollback(1)
    \/ cw_Commit(1)
    \/ cw_Rollback(1)
    \/ \E id \in OrderIds : do_Begin(1, id)
    \/ do_Details(1)
    \/ do_Order(1)
    \/ do_Commit(1)
    \/ do_Rollback(1)
    \/ Return(1)

SpecOrderDelete == Init /\ [][NextOrderDelete]_vars

\* C14: deleteOrder removes the detail rows of the order and the order row
\* as one transaction.  No step of the call changes the visible order or
\* detail rows, except its commit, which leaves neither the order row nor any
\* detail row of the order; so after a failure all of them are still there.
C14_DeleteOrderAtomic ==
    [][ \A w \in Workers :
          (loc[w].op = "deleteOrder" /\ pc[w] # "done")
          => IF pc'[w] = "done" /\ loc'[w].ok
             THEN /\ loc[w].orderId \notin DOMAIN orderfile'
                  /\ { d \in orderdetail' : d.orderId = loc[w].orderId } = {}
             ELSE orderfile' = orderfile /\ orderdetail' = orderdetail
      ]_vars

\* A deleteOrder has run both DELETEs on an order that has detail rows, failed
\* at the commit and thrown; the order row and its detail rows are present.
C14_Witness ==
    \E w \in Workers :
        /\ pc[w] = "done"
        /\ loc[w].op = "deleteOrder"
        /\ ~loc[w].ok
        /\ loc[w].affectedRows = 1
        /\ loc[w].orderId \in DOMAIN orderfile
        /\ DetailsOf(loc[w].orderId) # {}

\* C15: bulkUpdateStatus and bulkCancel with an empty id list are no-ops:
\* the request ends with 0 affected rows, without a statement, without an
\* error and with every order row as it was; with a non-empty id list exactly
\* one statement is executed.
C15_EmptyBulkNoOp ==
    [][ lastStmt'.op \in {"bulkUpdateStatus", "bulkCancel"}
        => IF lastStmt'.ids = {}
           THEN /\ ~lastStmt'.thrown
                /\ lastStmt'.stmts = 0
                /\ lastStmt'.affectedRows = 0
                /\ orderfile' = orderfile
           ELSE lastStmt'.stmts = 1
      ]_vars

\* ===================================================================
\* Product groups
\* ===================================================================

GroupIds == 1..MaxGroups

\* Product fields handed to a creation that names a group.
GroupedInputs ==
    { [name |-> "Widget", price |-> 9, groupid |-> g] : g \in GroupIds \cup {NoGroup} }

\* The groupid of PUT /products/:id/group: a group id or null.
GroupArgs == GroupIds \cup {NoGroup}

\* ProductRepository.getProductsByGroupId
ProductsOfGroup(g) == { p \in DOMAIN products : products[p].groupid = g }

\* ------------------------------------- ProductGroupRepository.createGroup
\* INSERT INTO productgroups ... RETURNING id through the pool.
createGroup ==
    /\ groupSeq <= MaxGroups
    /\ checkedOut < PoolMax
    /\ productgroups' = productgroups \cup {groupSeq}
    /\ groupSeq' = groupSeq + 1
    /\ UNCHANGED <<orderVars, productVars, checkedOut, pc, loc>>

\* ---------------------------------------- DELETE /product-groups/:id
\* getProductsByGroupId(groupId): a group that has products is refused with
\* 400; otherwise the handler goes on to the deletion.
gd_Check(w, g) ==
    /\ pc[w] = "idle"
    /\ checkedOut < PoolMax
    /\ loc' = [loc EXCEPT ![w] =
                 [ op |-> "deleteGroup", groupId |-> g,
                   refused |-> ProductsOfGroup(g) # {}, ok |-> FALSE ]]
    /\ pc' = [pc EXCEPT ![w] =
                IF ProductsOfGroup(g) # {} THEN "done" ELSE "gd_delete"]
    /\ UNCHANGED <<orderVars, productVars, groupVars, checkedOut>>

\* productGroupRepo.delete(groupId): DELETE FROM "productgroups" WHERE id = $1
\* through the pool.
gd_Delete(w) ==
    /\ pc[w] = "gd_delete"
    /\ checkedOut < PoolMax
    /\ \/ /\ productgroups' = productgroups \ {loc[w].groupId}
          /\ loc' = [loc EXCEPT ![w].ok = loc[w].groupId \in productgroups]
       \/ /\ UNCHANGED productgroups
          /\ loc' = [loc EXCEPT ![w].ok = FALSE]
    /\ pc' = [pc EXCEPT ![w] = "done"]
    /\ UNCHANGED <<orderVars, productVars, groupSeq, checkedOut>>

\* ------------------------------------------- PUT /products/:id/group
\* productRepo.findById(productId): 404 when there is no such product.
ga_Find(w, productId, g) ==
    /\ pc[w] = "idle"
    /\ checkedOut < PoolMax
    /\ loc' = [loc EXCEPT ![w] =
                 [ op |-> "updateProductGroup", productId |-> productId,
                   groupId |-> g, ok |-> FALSE ]]
    /\ pc' = [pc EXCEPT ![w] =
                IF productId \notin DOMAIN products THEN "done"
                ELSE IF g # NoGroup THEN "ga_group" ELSE "ga_update"]
    /\ UNCHANGED <<orderVars, productVars, groupVars, checkedOut>>

\* productGroupRepo.findById(groupid): 404 when there is no such group.
ga_Group(w) ==
    /\ pc[w] = "ga_group"
    /\ checkedOut < PoolMax
    /\ pc' = [pc EXCEPT ![w] =
                IF loc[w].groupId \in productgroups THEN "ga_update" ELSE "done"]
    /\ UNCHANGED <<orderVars, productVars, groupVars, checkedOut, loc>>

\* ProductService.updateProductGroup: UPDATE products SET groupid = $1
\* WHERE id = $2 through the pool.
ga_Update(w) ==
    /\ pc[w] = "ga_update"
    /\ checkedOut < PoolMax
    /\ \/ /\ products' = [ p \in DOMAIN products |->
                            IF p = loc[w].productId
                            THEN [products[p] EXCEPT !.groupid = loc[w].groupId]
                            ELSE products[p] ]
          /\ loc' = [loc EXCEPT ![w].ok = loc[w].productId \in DOMAIN products]
       \/ /\ UNCHANGED products
          /\ loc' = [loc EXCEPT ![w].ok = FALSE]
    /\ pc' = [pc EXCEPT ![w] = "done"]
    /\ UNCHANGED <<orderVars, moqs, productSeq, moqSeq, storage, imgSeq,
                   groupVars, checkedOut>>

\* Groups are created and deleted and products are assigned to groups by
\* requests running side by side; products are created, with or without a
\* group, without images and tiers.
NextGroups ==
    \/ createGroup
    \/ \E data \in GroupedInputs : cp_Begin(1, data, <<>>, {})
    \/ cp_Product(1)
    \/ cp_Commit(1)
    \/ cp_Rollback(1)
    \/ \E w \in Workers :
          \/ \E g \in GroupIds : gd_Check(w, g)
          \/ gd_Delete(w)
          \/ \E p \in ProductIds, g \in GroupArgs : ga_Find(w, p, g)
          \/ ga_Group(w)
          \/ ga_Update(w)
          \/ Return(w)

SpecGroups == Init /\ [][NextGroups]_vars

\* The groups that have been deleted.
DeletedGroups == (1..(groupSeq - 1)) \ productgroups

\* C16: a product group is never deleted while a product references it: no
\* step removes a group that a product row references, and no reachable
\* state has a product row whose groupid names a deleted group.
C16_NoProductInDeletedGroup ==
    [][ /\ \A g \in productgroups \ productgroups' : ProductsOfGroup(g) = {}
        /\ \A p \in DOMAIN products' : products'[p].groupid \notin DeletedGroups'
      ]_vars

\* ===================================================================
\* Repository updates of one row
\* ===================================================================

\* The columns of a product row and the columns a partial may name.
Columns == {"name", "price", "image_url", "image_url2", "groupid"}
PartialKeys == {"name", "price", "groupid"}

\* A partial: keys are the properties the object has, undefined the
\* properties whose value is undefined; name, price and groupid carry the
\* values of the other properties.
Partial(keys, undef, n, p, g) ==
    [keys |-> keys, undefined |-> undef, name |-> n, price |-> p, groupid |-> g]

PartialInputs ==
    { Partial({}, {}, "", 0, NoGroup),
      Partial({"price"}, {}, "", 12, NoGroup),
      Partial({"price"}, {"price"}, "", 0, NoGroup),
      Partial({"name", "price"}, {"price"}, "Gadget", 0, NoGroup),
      Partial({"name", "groupid"}, {}, "Gadget", 0, 1) }

\* Rows handed to createProduct.
RepoInputs ==
    { [name |-> "Widget", price |-> 9, image_url |-> 1, groupid |-> NoGroup],
      [name |-> "Widget", price |-> 9, image_url |-> NoImage, groupid |-> 1] }

\* The entries of Object.entries(data) that pass value !== undefined.
Defined(data) == data.keys \ data.undefined

\* SQL NULL in a column: "" in name, 0 in the numeric columns.
NullOf(f) == IF f = "name" THEN "" ELSE 0

\* The row after UPDATE ... SET k = v for the keys k given, NULL for a key
\* that has no value.
SetRow(row, data, keys) ==
    LET Col(f) == IF f \notin keys THEN row[f]
                  ELSE IF f \in data.undefined THEN NullOf(f)
                  ELSE data[f]
    IN [ name |-> Col("name"), price |-> Col("price"),
         image_url |-> row.image_url, image_url2 |-> row.image_url2,
         groupid |-> Col("groupid") ]

SetProduct(id, data, keys) ==
    [ p \in DOMAIN products |->
        IF p = id THEN SetRow(products[p], data, keys) ELSE products[p] ]

\* ProductRepository.createProduct: INSERT INTO products (keys) VALUES (...)
\* RETURNING id through the pool; a column that is not named is NULL.
createProduct(data) ==
    /\ productSeq <= MaxProducts
    /\ checkedOut < PoolMax
    /\ products' = [ p \in DOMAIN products \cup {productSeq} |->
                       IF p = productSeq
                       THEN [ name |-> data.name, price |-> data.price,
                              image_url |-> data.image_url,
                              image_url2 |-> NoImage,
                              groupid |-> data.groupid ]
                       ELSE products[p] ]
    /\ productSeq' = productSeq + 1
    /\ lastStmt' = [op |-> "createProduct", ids |-> {productSeq}, arg |-> <<>>,
                    stmts |-> 1, affectedRows |-> 1, thrown |-> FALSE]
    /\ UNCHANGED <<orderfile, orderdetail, orderSeq, moqs, moqSeq, storage,
                   imgSeq, groupVars, checkedOut, pc, loc>>

\* The call as lastStmt records it: no statement and false when there is
\* nothing to set, else one UPDATE and affectedRows > 0.
Updated(op, id, data, keys) ==
    [op |-> op, ids |-> {id}, arg |-> <<data>>,
     stmts |-> IF keys = {} THEN 0 ELSE 1,
     affectedRows |-> IF keys = {} THEN 0
                      ELSE Cardinality({id} \cap DOMAIN products),
     thrown |-> FALSE]

\* An update that writes every column a partial may name, NULL where the
\* partial has no value.
update_AllColumns(id, data) ==
    /\ checkedOut < PoolMax
    /\ products' = SetProduct(id, [data EXCEPT !.undefined =
                                      PartialKeys \ Defined(data)], PartialKeys)
    /\ lastStmt' = Updated("update", id, data, PartialKeys)
    /\ UNCHANGED <<orderfile, orderdetail, orderSeq, moqs, productSeq, moqSeq,
                   storage, imgSeq, groupVars, checkedOut, pc, loc>>

\* BaseRepository.update: SET k = $n for every entry whose value is not
\* undefined; return false before any statement when no entry is left.
update(id, data) ==
    /\ Defined(data) # {} => checkedOut < PoolMax
    /\ products' = SetProduct(id, data, Defined(data))
    /\ lastStmt' = Updated("update", id, data, Defined(data))
    /\ UNCHANGED <<orderfile, orderdetail, orderSeq, moqs, productSeq, moqSeq,
                   storage, imgSeq, groupVars, checkedOut, pc, loc>>

\* ProductRepository.updateProduct: id and created_at are taken out of the
\* object, then as BaseRepository.update.
updateProduct(id, product) ==
    /\ Defined(product) # {} => checkedOut < PoolMax
    /\ products' = SetProduct(id, product, Defined(product))
    /\ lastStmt' = Updated("updateProduct", id, product, Defined(product))
    /\ UNCHANGED <<orderfile, orderdetail, orderSeq, moqs, productSeq, moqSeq,
                   storage, imgSeq, groupVars, checkedOut, pc, loc>>

\* ProductRepository.update of the MySQL repository: name, price,
\* description, image_url and active are tested one by one against
\* undefined; any other property of the object is ignored.
ProductRepository_update(id, product) ==
    LET keys == Defined(product) \cap {"name", "price"}
    IN /\ keys # {} => checkedOut < PoolMax
       /\ products' = SetProduct(id, product, keys)
       /\ lastStmt' = Updated("ProductRepository_update", id, product, keys)
       /\ UNCHANGED <<orderfile, orderdetail, orderSeq, moqs, productSeq,
                      moqSeq, storage, imgSeq, groupVars, checkedOut, pc, loc>>

\* BaseRepository.update of the compiled repository: UPDATE t SET ? WHERE
\* id = ? with the object itself as the first value, handed to pool.execute.
\* The statement is sent whatever the object holds, and the server rejects
\* a placeholder in the place of the assignments: the call raises and no
\* row is changed.
update_SetObject(id, data) ==
    /\ checkedOut < PoolMax
    /\ lastStmt' = [op |-> "update_SetObject", ids |-> {id}, arg |-> <<data>>,
                    stmts |-> 1, affectedRows |-> 0, thrown |-> TRUE]
    /\ UNCHANGED <<orderfile, orderdetail, orderSeq, productVars, groupVars,
                   checkedOut, pc, loc>>

RepoUpdateOps ==
    {"update", "updateProduct", "ProductRepository_update", "update_SetObject"}

\* Rows are created and updated through the repository, one statement per
\* call.
NextRepository ==
    \/ \E data \in RepoInputs : createProduct(data)
    \/ \E id \in ProductIds, data \in PartialInputs :
          \/ update(id, data)
          \/ updateProduct(id, data)
          \/ ProductRepository_update(id, data)
          \/ update_SetObject(id, data)

SpecRepository == Init /\ [][NextRepository]_vars

\* C17: a repository update changes only the columns the partial names: the
\* columns it does not name keep their value, every other row is left as it
\* was, and a price the partial gives is the price of the row afterwards.
C17_UpdateFrame ==
    [][ \A id \in ProductIds :
          ( /\ lastStmt'.op \in RepoUpdateOps
            /\ lastStmt'.ids = {id}
            /\ id \in DOMAIN products )
          => LET data == lastStmt'.arg[1]
             IN /\ DOMAIN products' = DOMAIN products
                /\ \A f \in Columns \ data.keys :
                      products'[id][f] = products[id][f]
                /\ \A p \in DOMAIN products \ {id} : products'[p] = products[p]
                /\ ("price" \in Defined(data) /\ ~lastStmt'.thrown)
                      => products'[id].price = data.price
      ]_vars

\* The row created as Widget at price 9 with an image, after update(1,
\* {price: 12}): price 12, every other column as created.
C17_Witness ==
    /\ lastStmt.op = "update"
    /\ lastStmt.arg = <<Partial({"price"}, {}, "", 12, NoGroup)>>
    /\ lastStmt.affectedRows = 1
    /\ 1 \in DOMAIN products
    /\ products[1] = [ name |-> "Widget", price |-> 12, image_url |-> 1,
                       image_url2 |-> NoImage, groupid |-> NoGroup ]
\* C18: a repository update with a partial that has no defined value is a
\* no-op: it sends no statement, returns false, raises no error and leaves
\* every row as it was, whether or not the row exists.
C18_EmptyPartialNoOp ==
    [][ ( /\ lastStmt'.op \in RepoUpdateOps
          /\ Defined(lastStmt'.arg[1]) = {} )
        => /\ lastStmt'.stmts = 0
           /\ lastStmt'.affectedRows = 0
           /\ ~lastStmt'.thrown
           /\ products' = products
      ]_vars

\* ===================================================================
\* Reading the tiers of a product
\* ===================================================================

\* The rows given, ORDER BY moq ASC. SQL leaves the order of rows of one
\* quantity open; the tier lists of the model hold no quantity twice.
RECURSIVE OrderByMoq(_)
OrderByMoq(rows) ==
    IF rows = {} THEN << >>
    ELSE LET r == CHOOSE x \in rows :
                     \A y \in rows : x.moq < y.moq \/ (x.moq = y.moq /\ x.id <= y.id)
         IN <<r>> \o OrderByMoq(rows \ {r})

\* MOQRepository.findByProductId: SELECT * FROM moqs WHERE product_id = $1
\* ORDER BY moq ASC.
findByProductId(productId) == OrderByMoq(MoqsOf(productId))

\* The (moq, rate) pairs of the rows returned, in the order returned.
TiersOfResult(result) ==
    [ k \in 1..Len(result) |-> Tier(result[k].moq, result[k].rate) ]

\* C19: after a product creation with a tier list has committed,
\* findByProductId for the new product returns as many rows as the list has
\* tiers, with the (moq, rate) pairs of the list in the order of the list.
C19_TiersInInsertionOrder ==
    \A w \in Workers :
        ( /\ pc[w] = "done"
          /\ loc[w].op = "createProductWithImages"
          /\ loc[w].ok )
        => TiersOfResult(findByProductId(loc[w].productId)) = loc[w].list

\* ===================================================================
\* Required order fields
\* ===================================================================

OrderCreateOps == {"createOrderWithDetails", "createWithDetails"}

\* C20: an order that lacks a required field is rejected: no order row and
\* no detail row of a creation whose order has no item ever becomes visible,
\* and such a creation ends with an error.
C20_RequiredFieldsChecked ==
    [][ \A w \in Workers :
          ( /\ loc'[w].op \in OrderCreateOps
            /\ loc'[w].order.Itemcode = 0 )
          => /\ loc'[w].orderId \notin DOMAIN orderfile' \ DOMAIN orderfile
             /\ \A d \in orderdetail' \ orderdetail : d.orderId # loc'[w].orderId
             /\ (pc'[w] = "done" /\ pc[w] # "done") => ~loc'[w].ok
      ]_vars

\* ===================================================================
\* Clearing the tiers of a product
\* ===================================================================

\* C21: setForProduct / replaceMOQs with an empty list clears the tiers of
\* the product and is idempotent: the call that returns leaves the product
\* without tier, and when the product had no tier before, the call returns
\* all the same and leaves table moqs as it was.
C21_ClearIdempotent ==
    [][ \A w \in Workers :
          ( /\ loc[w].op = "setForProduct"
            /\ loc[w].list = << >>
            /\ pc[w] = "sp_commit"
            /\ pc'[w] = "done"
            /\ loc'[w].ok )
          => /\ { r \in moqs' : r.product_id = loc[w].productId } = {}
             /\ MoqsOf(loc[w].productId) = {} => moqs' = moqs
      ]_vars

\* A call with an empty list has returned after tiers had been written: the
\* product has no tier.
C21_Witness ==
    \E w \in Workers :
        /\ pc[w] = "done"
        /\ loc[w].op = "setForProduct"
        /\ loc[w].list = << >>
        /\ loc[w].ok
        /\ moqSeq > 1
        /\ MoqsOf(loc[w].productId) = {}

\* ===================================================================
\* Operations on single tiers
\* ===================================================================

\* Tiers handed to the operations on single rows.
TierRows == { [product_id |-> p, moq |-> 5, rate |-> 9] : p \in ProductIds }
TierEdits == { Tier(20, 3) }
MoqIds == 1..MaxMoqId

\* The INSERTs a call in flight has still to execute; used only to keep the
\* moqs id sequence within MaxMoqId.
TiersToInsert(w) ==
    IF pc[w] \in {"idle", "done"} THEN 0
    ELSE Len(loc[w].list) - (loc[w].i - 1)

\* MOQRepository.create: INSERT INTO moqs (product_id, moq, rate) through
\* the pool.
MOQRepository_create(moq) ==
    /\ moqSeq + TiersToInsert(1) <= MaxMoqId
    /\ checkedOut < PoolMax
    /\ moqs' = moqs \cup { [ id |-> moqSeq, product_id |-> moq.product_id,
                             moq |-> moq.moq, rate |-> moq.rate ] }
    /\ moqSeq' = moqSeq + 1
    /\ UNCHANGED <<orderVars, groupVars, products, productSeq, storage, imgSeq,
                   checkedOut, pc, loc>>

\* MOQRepository.update: UPDATE moqs SET ? WHERE id = ? with the object as
\* the first value, handed to pool.execute: the server rejects a placeholder
\* in the place of the assignments, the call raises and no row is changed.
MOQRepository_update(id, moq) ==
    /\ checkedOut < PoolMax
    /\ lastStmt' = [op |-> "MOQRepository_update", ids |-> {id}, arg |-> <<moq>>,
                    stmts |-> 1, affectedRows |-> 0, thrown |-> TRUE]
    /\ UNCHANGED <<orderfile, orderdetail, orderSeq, productVars, groupVars,
                   checkedOut, pc, loc>>

\* MOQRepository.delete: DELETE FROM moqs WHERE id = ? through the pool.
MOQRepository_delete(id) ==
    /\ checkedOut < PoolMax
    /\ moqs' = { r \in moqs : r.id # id }
    /\ UNCHANGED <<orderVars, groupVars, products, productSeq, moqSeq, storage,
                   imgSeq, checkedOut, pc, loc>>

\* MOQRepository.deleteByProductId: DELETE FROM moqs WHERE product_id = ?
\* through the pool.
deleteByProductId(productId) ==
    /\ checkedOut < PoolMax
    /\ moqs' = moqs \ MoqsOf(productId)
    /\ UNCHANGED <<orderVars, groupVars, products, productSeq, moqSeq, storage,
                   imgSeq, checkedOut, pc, loc>>

\* ----------------------------- MOQRepository.createMultiple(productId, moqs)
\* getConnection() and beginTransaction().
mm_Begin(w, productId, list) ==
    /\ pc[w] = "idle"
    /\ moqSeq + Len(list) <= MaxMoqId + 1
    /\ checkedOut < PoolMax
    /\ checkedOut' = checkedOut + 1
    /\ pc' = [pc EXCEPT ![w] = IF Len(list) > 0 THEN "mm_insert" ELSE "mm_commit"]
    /\ loc' = [loc EXCEPT ![w] =
                 [ op |-> "createMultiple", productId |-> productId,
                   list |-> list, i |-> 1, pendIns |-> {}, ok |-> FALSE ]]
    /\ UNCHANGED <<orderVars, productVars, groupVars>>

\* One INSERT INTO moqs on the connection of the transaction.
mm_Insert(w) ==
    /\ pc[w] = "mm_insert"
    /\ \/ /\ loc' = [loc EXCEPT
                 ![w].pendIns = @ \cup { [ id |-> moqSeq,
                                           product_id |-> loc[w].productId,
                                           moq |-> loc[w].list[loc[w].i].moq,
                                           rate |-> loc[w].list[loc[w].i].rate ] },
                 ![w].i = @ + 1]
          /\ moqSeq' = moqSeq + 1
          /\ pc' = [pc EXCEPT ![w] =
                      IF loc[w].i = Len(loc[w].list) THEN "mm_commit" ELSE "mm_insert"]
       \/ /\ pc' = [pc EXCEPT ![w] = "mm_rollback"]
          /\ UNCHANGED <<loc, moqSeq>>
    /\ UNCHANGED <<orderVars, groupVars, products, moqs, productSeq, storage,
                   imgSeq, checkedOut>>

\* commit(), release, return insertIds.
mm_Commit(w) ==
    /\ pc[w] = "mm_commit"
    /\ \/ /\ moqs' = moqs \cup loc[w].pendIns
          /\ checkedOut' = checkedOut - 1
          /\ loc' = [loc EXCEPT ![w].ok = TRUE, ![w].pendIns = {}]
          /\ pc' = [pc EXCEPT ![w] = "done"]
       \/ /\ pc' = [pc EXCEPT ![w] = "mm_rollback"]
          /\ UNCHANGED <<moqs, loc, checkedOut>>
    /\ UNCHANGED <<orderVars, groupVars, products, productSeq, moqSeq, storage, imgSeq>>

\* rollback(), release, rethrow.
mm_Rollback(w) ==
    /\ pc[w] = "mm_rollback"
    /\ checkedOut' = checkedOut - 1
    /\ loc' = [loc EXCEPT ![w].ok = FALSE, ![w].pendIns = {}]
    /\ pc' = [pc EXCEPT ![w] = "done"]
    /\ UNCHANGED <<orderVars, productVars, groupVars>>

\* The endpoints of MOQRepository next to product creation and
\* replaceMOQs; the calls that take several steps run one at a time.
NextTiers ==
    \/ \E data \in ProductInputs, list \in MoqLists : cp_Begin(1, data, list, {})
    \/ cp_Product(1)
    \/ cp_Moq(1)
    \/ cp_Commit(1)
    \/ cp_Rollback(1)
    \/ \E p \in ProductIds, list \in ReplaceLists : sp_Begin(1, p, list)
    \/ sp_Delete(1)
    \/ sp_Insert(1)
    \/ sp_Commit(1)
    \/ sp_Rollback(1)
    \/ \E p \in ProductIds : mm_Begin(1, p, <<Tier(5, 9)>>)
    \/ mm_Insert(1)
    \/ mm_Commit(1)
    \/ mm_Rollback(1)
    \/ Return(1)
    \/ \E moq \in TierRows : MOQRepository_create(moq)
    \/ \E id \in MoqIds, moq \in TierEdits : MOQRepository_update(id, moq)
    \/ \E id \in MoqIds : MOQRepository_delete(id)
    \/ \E p \in ProductIds : deleteByProductId(p)

SpecTiers == Init /\ [][NextTiers]_vars

\* C22: the tiers of an existing product are only ever replaced as a whole:
\* a step that changes the MOQ rows of a product that exists before and
\* after it leaves none of the rows the product had in place, changed or
\* unchanged.
C22_NoPartialTierEdit ==
    [][ \A p \in DOMAIN products \cap DOMAIN products' :
          LET before == MoqsOf(p)
              after == { r \in moqs' : r.product_id = p }
          IN before # after
             => { r.id : r \in before } \cap { r.id : r \in after } = {}
      ]_vars

\* ===================================================================
\* Pooled connections
\* ===================================================================

\* -------------- OrderService.createOrderWithDetails of the MySQL repository
\* getPool().getConnection() and beginTransaction(). The calls it makes are
\* those of the service above: orderRepo.create through the pool, then
\* orderDetailRepo.createForOrder on a connection of its own.
om_Begin(w, order, details) ==
    /\ pc[w] = "idle"
    /\ orderSeq + Cardinality(Creating) <= MaxOrders
    /\ checkedOut < PoolMax
    /\ checkedOut' = checkedOut + 1
    /\ pc' = [pc EXCEPT ![w] = "co_order"]
    /\ loc' = [loc EXCEPT ![w] =
                 [ op |-> "createOrderWithDetails_MySql", order |-> order,
                   details |-> details, orderId |-> 0, i |-> 1,
                   pendOrder |-> {}, pend |-> {}, ok |-> FALSE ]]
    /\ UNCHANGED <<orderfile, orderdetail, orderSeq, lastStmt, productVars, groupVars>>

\* connection.commit() and return orderId; the method has no finally block
\* and never calls connection.release().
om_Commit(w) ==
    /\ pc[w] = "co_commit"
    /\ loc[w].op = "createOrderWithDetails_MySql"
    /\ \/ /\ loc' = [loc EXCEPT ![w].ok = TRUE]
          /\ pc' = [pc EXCEPT ![w] = "done"]
       \/ /\ pc' = [pc EXCEPT ![w] = "co_rollback"]
          /\ UNCHANGED loc
    /\ UNCHANGED <<orderfile, orderdetail, orderSeq, lastStmt, checkedOut,
                   productVars, groupVars>>

\* connection.rollback() and rethrow, again without release().
om_Rollback(w) ==
    /\ pc[w] = "co_rollback"
    /\ loc[w].op = "createOrderWithDetails_MySql"
    /\ loc' = [loc EXCEPT ![w].ok = FALSE]
    /\ pc' = [pc EXCEPT ![w] = "done"]
    /\ UNCHANGED <<orderfile, orderdetail, orderSeq, lastStmt, checkedOut,
                   productVars, groupVars>>

\* The order creations that take a pooled connection, side by side.
NextPool ==
    \E w \in Workers :
        \/ \E o \in OrderInputs, ds \in DetailLists : co_Begin(w, o, ds)
        \/ \E o \in OrderInputs, ds \in DetailLists : om_Begin(w, o, ds)
        \/ co_Order(w)
        \/ cf_Connect(w)
        \/ cf_Insert(w)
        \/ cf_Commit(w)
        \/ cf_Rollback(w)
        \/ co_Commit(w)
        \/ co_Rollback(w)
        \/ om_Commit(w)
        \/ om_Rollback(w)
        \/ Return(w)

SpecPool == Init /\ [][NextPool]_vars

\* C23: every composite operation gives back the connection it took, on
\* every exit path: whenever no composite operation is running, no pooled
\* connection is checked out.
C23_ConnectionsReleased ==
    (\A w \in Workers : pc[w] \in {"idle", "done"}) => checkedOut = 0

\* ===================================================================
\* Order creations on a busy pool
\* ===================================================================

\* PoolMax concurrent order creations: those of the workers, and
\* BusyClients further ones that have taken their client and gone no
\* further yet.
BusyClients == PoolMax - Cardinality(Workers)

InitContended ==
    /\ InitOrders /\ InitProducts /\ InitGroups
    /\ checkedOut = BusyClients
    /\ pc = [w \in Workers |-> "idle"]
    /\ loc = [w \in Workers |-> Idle]

\* this.orderRepo.create(order) when the pool has no free client: pool.query
\* waits connectionTimeoutMillis and rejects.
co_OrderTimeout(w) ==
    /\ pc[w] = "co_order"
    /\ checkedOut = PoolMax
    /\ pc' = [pc EXCEPT ![w] = "co_rollback"]
    /\ UNCHANGED <<orderVars, productVars, groupVars, checkedOut, loc>>

\* pool.connect() of createForOrder when the pool has no free client: it
\* waits connectionTimeoutMillis and rejects; the error reaches the service's
\* catch block.
cf_ConnectTimeout(w) ==
    /\ pc[w] = "cf_connect"
    /\ checkedOut = PoolMax
    /\ pc' = [pc EXCEPT ![w] = "co_rollback"]
    /\ UNCHANGED <<orderVars, productVars, groupVars, checkedOut, loc>>

NextContended ==
    \E w \in Workers :
        \/ \E o \in OrderInputs, ds \in DetailLists : co_Begin(w, o, ds)
        \/ co_Order(w)
        \/ co_OrderTimeout(w)
        \/ cf_Connect(w)
        \/ cf_ConnectTimeout(w)
        \/ cf_Insert(w)
        \/ cf_Commit(w)
        \/ cf_Rollback(w)
        \/ co_Commit(w)
        \/ co_Rollback(w)
        \/ \E o \in OrderInputs, ds \in DetailLists : cw_Begin(w, o, ds)
        \/ cw_Order(w)
        \/ cm_Connect(w)
        \/ cm_Insert(w)
        \/ cm_Commit(w)
        \/ cm_Rollback(w)
        \/ cw_Commit(w)
        \/ cw_Rollback(w)
        \/ Return(w)

SpecContended == InitContended /\ [][NextContended]_vars

\* The places where a call holds its own connection and asks the pool for a
\* further one.
WaitsForSecond == {"co_order", "cf_connect", "cm_connect"}

\* C26: concurrent order creations never exhaust the pool among themselves:
\* in no reachable state is every pooled connection checked out while every
\* running call holds one and is asking the pool for another.
C26_NoPoolExhaustion ==
    ~( /\ checkedOut = PoolMax
       /\ \A w \in Workers : pc[w] \in WaitsForSecond )

\* ===================================================================
\* The error a failed creation reports
\* ===================================================================

\* C24: when a statement fails after the transaction of a product creation
\* has begun, nothing the creation wrote is visible afterwards and the error
\* the caller receives is the error of the failing statement, not one raised
\* by the rollback or by the cleanup of the upload.
C24_OriginalErrorReported ==
    \A w \in Workers :
        ( /\ pc[w] = "done"
          /\ loc[w].op \in CreateOps
          /\ loc[w].began
          /\ ~loc[w].ok )
        => /\ loc[w].productId \notin DOMAIN products
           /\ MoqsOf(loc[w].productId) = {}
           /\ loc[w].thrown = "statement"

\* ===================================================================
\* Uploads before the row write
\* ===================================================================

ImageOps == {"createProductWithImages", "updateProductWithImages"}

\* The places where the INSERT or UPDATE of the product row is issued.
RowWrite == {"cp_product", "up_update"}

\* C25: the uploads of a call may settle in any order, but the INSERT or
\* UPDATE of the product row is issued only when every upload the call
\* started has completed or failed: no step issues the row write while an
\* upload of the call is in flight.
C25_RowWriteAfterUploads ==
    [][ \A w \in Workers :
          ( /\ loc[w].op \in ImageOps
            /\ pc[w] \in RowWrite
            /\ pc'[w] # pc[w] )
          => loc[w].uploading = {}
      ]_vars

\* A creation with an image for every slot has uploaded them all and has
\* issued its INSERT.
C25_Witness ==
    \E w \in Workers :
        /\ loc[w].op = "createProductWithImages"
        /\ loc[w].pendProduct # {}
        /\ \A s \in Slots : loc[w].uploaded[s] # NoImage

\* ===================================================================
\* Fields an update does not name
\* ===================================================================

\* C27: updateWithMOQs leaves every product field that its data does not
\* hold as it was: after the commit, name and price are those of the row
\* before the call unless the data gives them, and image_url, which the data
\* of the model never gives, is unchanged.
C27_AbsentFieldsKept ==
    [][ \A w \in Workers :
          ( /\ loc[w].op = "updateWithMOQs"
            /\ pc[w] = "uw_commit"
            /\ pc'[w] = "done"
            /\ loc'[w].ok
            /\ loc[w].productId \in DOMAIN products )
          => LET before == products[loc[w].productId]
                 after == products'[loc[w].productId]
             IN /\ loc[w].data.name = "" => after.name = before.name
                /\ loc[w].data.price = 0 => after.price = before.price
                /\ after.image_url = before.image_url
      ]_vars

\* ===================================================================
\* The cancel flag and the status
\* ===================================================================

\* C28: in every order row the cancel flag is 1 exactly when the status is
\* 'cancelled'.
C28_CancelIffCancelled ==
    \A o \in DOMAIN orderfile :
        orderfile[o].cancel = 1 <=> orderfile[o].status = "cancelled"

\* ===================================================================
\* Product update requests
\* ===================================================================

\* The moqs field of the request body: absent, a string that is not JSON, or
\* the JSON text of a tier list.
MoqsFields ==
    { [kind |-> "absent", list |-> << >>],
      [kind |-> "invalid", list |-> << >>],
      [kind |-> "json", list |-> <<Tier(5, 9)>>] }

\* name and price of the request body.
RequestBodies == { [name |-> "Gadget", price |-> 12] }

\* parseMOQs: JSON.parse of the string, [] when it throws.
parseMOQs(field) == IF field.kind = "json" THEN field.list ELSE << >>

\* The moqs argument the handlers pass on: moqs ? parseMOQs(moqs) : undefined
\* in update-with-images, moqs ? parseMOQs(moqs) : [] in update-with-moqs.
MoqsArgOfImages(field) ==
    IF field.kind = "absent" THEN << >> ELSE <<parseMOQs(field)>>
MoqsArgOfMoqs(field) ==
    IF field.kind = "absent" THEN << << >> >> ELSE <<parseMOQs(field)>>

\* The handler up to the first step of updateProductWithImages: a body
\* without name or price is answered 400 with nothing done; otherwise the
\* service is called with the moqs argument given, without images, and takes
\* its client. The local moqs keeps the field of the body.
uh_Begin(w, productId, body, field, moqsArg) ==
    /\ pc[w] = "idle"
    /\ body.name # "" /\ body.price # 0
    /\ moqsArg # <<>> => moqSeq + Len(moqsArg[1]) <= MaxMoqId + 1
    /\ checkedOut < PoolMax
    /\ checkedOut' = checkedOut + 1
    /\ pc' = [pc EXCEPT ![w] = "up_select"]
    /\ loc' = [loc EXCEPT ![w] =
                 [ op |-> "updateProductWithImages", productId |-> productId,
                   data |-> body, moqs |-> field, moqsArg |-> moqsArg,
                   list |-> IF moqsArg = <<>> THEN <<>> ELSE moqsArg[1],
                   images |-> {},
                   currentProduct |-> [s \in Slots |-> NoImage],
                   deleting |-> {}, uploading |-> {},
                   uploaded |-> [s \in Slots |-> NoImage],
                   i |-> 1,
                   pendProduct |-> {}, pendDel |-> {}, pendIns |-> {},
                   result |-> "none", ok |-> FALSE ]]
    /\ UNCHANGED <<orderVars, productVars, groupVars>>

\* PUT /products/:id/update-with-images, without files.
uh_Images(w, productId, body, field) ==
    uh_Begin(w, productId, body, field, MoqsArgOfImages(field))

\* PUT /products/:id/update-with-moqs, without file.
uh_Moqs(w, productId, body, field) ==
    uh_Begin(w, productId, body, field, MoqsArgOfMoqs(field))

\* Products are created with or without tiers and updated by requests.
NextRequests ==
    \/ \E data \in ProductInputs, list \in MoqLists : cp_Begin(1, data, list, {})
    \/ cp_Product(1)
    \/ cp_Moq(1)
    \/ cp_Commit(1)
    \/ cp_Rollback(1)
    \/ \E p \in ProductIds, body \in RequestBodies, field \in MoqsFields :
          \/ uh_Images(1, p, body, field)
          \/ uh_Moqs(1, p, body, field)
    \/ up_Select(1)
    \/ up_Update(1)
    \/ up_MoqDelete(1)
    \/ up_Moq(1)
    \/ up_Commit(1)
    \/ up_Rollback(1)
    \/ Return(1)

SpecRequests == Init /\ [][NextRequests]_vars

\* C29: an update request whose moqs field is absent or is not JSON leaves
\* the tiers of the product alone: no step of such a request changes the MOQ
\* rows of its product.
C29_TiersKeptWithoutMoqs ==
    [][ \A w \in Workers :
          ( /\ loc[w].op = "updateProductWithImages"
            /\ loc[w].moqs.kind \in {"absent", "invalid"} )
          => { r \in moqs' : r.product_id = loc[w].productId }
                = MoqsOf(loc[w].productId)
      ]_vars

\* ===================================================================
\* A deletion that fails
\* ===================================================================

\* C30: a product deletion that fails leaves everything in place: when the
\* call has read a product whose image was in storage and ends in failure,
\* the product row is still there and so is the stored image.
C30_FailedDeleteKeepsImage ==
    \A w \in Workers :
        ( /\ pc[w] = "done"
          /\ loc[w].op \in DeleteOps
          /\ ~loc[w].ok
          /\ loc[w].stored # {} )
        => /\ loc[w].productId \in DOMAIN products
           /\ loc[w].stored \subseteq storage

====
